---- MODULE Spec2Model ----
(***************************************************************************)
(* Model of the MPI layer of VELOCIraptor (src/src/mpiroutines.cxx): the   *)
(* domain decomposition, the chunked pairwise transport, the export        *)
(* planner, the cross-domain FOF linker and the group migration and        *)
(* compaction.  Each part of the layer has its own specification over the  *)
(* shared state; the variables a specification does not use stay idle.     *)
(***************************************************************************)
EXTENDS Integers, Sequences, FiniteSets, TLC

\* ------------------------------------------------------------------------
\* Bounds of the model
\* ------------------------------------------------------------------------
\* largest entry of the send-count matrix in the transport specification
MaxItems == 3
\* largest maximum chunk size (items per message) in the transport specification
MaxChunk == 2

\* entries of the send-count matrix in the transport specification: nothing,
\* a single item, and a payload longer than a chunk
ItemCounts == {0, 1, MaxItems}

\* largest number of processes in the decomposition specification
MaxDecompProcs == 8
\* largest configured number of mesh cells per dimension (0 asks for the default)
MaxCellsPerDim == 2
\* mesh resolution of the scenario with 64 cells on 8 processes
ScenarioCellsPerDim == {4}
\* largest minimum number of cells per dimension behind the default mesh
MaxMinCellPerDim == 1

\* largest number of particles in the linking specification
MaxPart == 5

\* process counts explored by the transport and linking specifications
ProcCounts == {2, 3}
\* largest minimum group size handed to MPICompileGroups
MaxMinSize == 3
\* largest number of particles counted in one mesh cell before a rebalance
MaxCellParts == 1
\* largest number of processes of the periodic overlap searches
MaxOverlapProcs == 4
\* process counts of the rebalance runs
BalanceProcs == {2, 3}
\* imbalance limits of the rebalance runs, in tenths
ImbalanceLimits == {1, 10}

VARIABLES
    NProcs,         \* number of MPI processes, fixed at launch
    mpi_nsend,      \* send-count matrix, flat: entry [j + i*NProcs] is i -> j
    FoFDataIn,      \* per process: export records, sorted by destination
    FoFDataGet,     \* per process: import buffer
    commpair,       \* shuffled list of communicating pairs
    maxchunksize,   \* maximum number of items per message
    comm,           \* per process: position in the pair loop and chunk state
    mpierr,         \* an MPI_Sendrecv received more than its buffer holds
    opt,            \* the run-time options and the mesh they carry
    mpi_xlim,       \* limits of the simulation volume, per axis
    mpi_nxsplit,    \* number of slabs along each axis
    mpi_domain,     \* per process: the bounds of its slab, per axis
    located,        \* position in the decomposition run and the last owner query
    mpi_period,     \* period of the volume, 0 when it is not periodic
    Part,           \* per process: the local particle array
    pfof,           \* per process: group id of every local particle, 0 = ungrouped
    mpi_foftask,    \* per process: owning process of every local particle's group
    GroupLen,       \* per process: Len, the group length recorded for every local particle
    ChainHead,      \* per process: Head, the head of the local chain of every particle
    ChainNext,      \* per process: Next, the next particle of the local chain, 0 at its end
    mpi_nlocal,     \* number of particles of every process
    mpi_ngroups,    \* number of local groups of every process
    rankorder,      \* the processes ranked by MPIAdjustLocalGroupIDs
    mpi_maxgid,     \* per process: base of the ids for new groups
    mpi_gidoffset,  \* per process: offset of the next id for a new group
    PartDataGet,    \* per process: imported particle copies
    NExport,        \* per process: number of records to export
    NImport,        \* per process: number of records to import
    links,          \* per process: links made by its last MPILinkAcross
    linkstep,       \* position of the processes in the linking run
    lastpass,       \* the merges of the most recent MPILinkAcross, in order
    FoFGroupDataLocal, \* per process: particles imported by MPIGroupExchange
    Nlocal          \* per process: particle count after MPIGroupExchange

sharedVars == <<NProcs, mpi_nsend, FoFDataIn, FoFDataGet>>
transportVars == <<commpair, maxchunksize, comm, mpierr>>
decompVars == <<opt, mpi_xlim, mpi_nxsplit, mpi_domain, located>>
linkVars == <<mpi_period, Part, pfof, mpi_foftask, GroupLen, ChainHead, ChainNext,
              mpi_nlocal,
              mpi_ngroups, rankorder, mpi_maxgid, mpi_gidoffset, PartDataGet,
              NExport, NImport, links, linkstep, lastpass, FoFGroupDataLocal, Nlocal>>
vars == <<sharedVars, transportVars, decompVars, linkVars>>

\* ------------------------------------------------------------------------
\* Helpers
\* ------------------------------------------------------------------------
Tasks == 0 .. (NProcs - 1)

Min(a, b) == IF a < b THEN a ELSE b
Max(a, b) == IF a > b THEN a ELSE b

\* ceil(a/b) of two non-negative counts, as ceil(double(a)/double(b))
CeilDiv(a, b) == (a + b - 1) \div b

RECURSIVE SumFn(_, _)
\* f[0] + ... + f[n-1]
SumFn(f, n) == IF n = 0 THEN 0 ELSE f[n - 1] + SumFn(f, n - 1)

\* entry of a flat NProcs x NProcs matrix: items process i sends to process j
At(m, i, j) == m[j + i * NProcs]

\* all flat matrices over 0..(np*np-1) with zero diagonal and entries in S
Matrices(np, S) ==
    LET offdiag == { k \in 0 .. (np * np - 1) : (k \div np) # (k % np) }
    IN  { [k \in 0 .. (np * np - 1) |-> IF k \in offdiag THEN f[k] ELSE 0] :
            f \in [offdiag -> S] }

\* all orderings of a finite set, as sequences
Orderings(S) ==
    { s \in [1 .. Cardinality(S) -> S] :
        \A a, b \in 1 .. Cardinality(S) : a # b => s[a] # s[b] }

\* values of the variables of a part of the layer that a specification does
\* not run
ExchangeIdle == mpi_nsend = <<>> /\ FoFDataIn = <<>> /\ FoFDataGet = <<>>
TransportIdle == commpair = <<>> /\ maxchunksize = 0 /\ comm = <<>> /\ mpierr = FALSE
DecompIdle ==
    /\ opt = <<>> /\ mpi_xlim = <<>> /\ mpi_nxsplit = <<>> /\ mpi_domain = <<>>
    /\ located = <<>>
LinkIdle ==
    /\ mpi_period = 0 /\ Part = <<>> /\ pfof = <<>> /\ mpi_foftask = <<>> /\ GroupLen = <<>>
    /\ ChainHead = <<>> /\ ChainNext = <<>> /\ mpi_nlocal = <<>> /\ mpi_ngroups = <<>>
    /\ rankorder = <<>> /\ mpi_maxgid = <<>> /\ mpi_gidoffset = <<>>
    /\ PartDataGet = <<>> /\ NExport = <<>> /\ NImport = <<>> /\ links = <<>>
    /\ linkstep = <<>> /\ lastpass = <<>> /\ FoFGroupDataLocal = <<>> /\ Nlocal = <<>>

NoRecord == [Index |-> -1, Task |-> -1, iGroup |-> 0, iGroupTask |-> -1, iLen |-> 0]

\* ------------------------------------------------------------------------
\* Transport: pair generation and chunking
\* ------------------------------------------------------------------------
\* the pairs of the double loop, were the test for traffic left out
CommPairSetAll(send_info) == { pr \in Tasks \X Tasks : pr[1] < pr[2] }

\* the pairs pushed by the double loop, before the shuffle
CommPairSet(send_info) ==
    { pr \in Tasks \X Tasks :
        /\ pr[1] < pr[2]
        /\ ~(At(send_info, pr[1], pr[2]) = 0 /\ At(send_info, pr[2], pr[1]) = 0) }

\* std::shuffle with a fixed seed yields one ordering of the pairs, the same
\* on every process; which one is implementation defined
MPIGenerateCommPairs(send_info) == Orderings(CommPairSet(send_info))

\* the send and receive tasks, were they not swapped for the second member
MPISetSendRecvTaskNoSwap(ThisTask, task1, task2) == <<task1, task2>>

MPISetSendRecvTask(ThisTask, task1, task2) ==
    IF ThisTask = task2 THEN <<task2, task1>> ELSE <<task1, task2>>

MPIInitialzeCommChunksBadCeil(nsend, nrecv, maxchunk) ==
    [ numsendrecv |-> Max(IF maxchunk > nsend THEN 1 ELSE nsend \div maxchunk,
                          IF maxchunk > nrecv THEN 1 ELSE nrecv \div maxchunk),
      cursendchunksize |-> IF maxchunk > nsend THEN nsend ELSE maxchunk,
      currecvchunksize |-> IF maxchunk > nrecv THEN nrecv ELSE maxchunk,
      sendoffset |-> 0,
      recvoffset |-> 0 ]

\* the chunk loop, were its number of rounds taken from the send side alone
MPIInitialzeCommChunksSendOnly(nsend, nrecv, maxchunk) ==
    [ numsendrecv |-> IF maxchunk > nsend THEN 1 ELSE CeilDiv(nsend, maxchunk),
      cursendchunksize |-> IF maxchunk > nsend THEN nsend ELSE maxchunk,
      currecvchunksize |-> IF maxchunk > nrecv THEN nrecv ELSE maxchunk,
      sendoffset |-> 0,
      recvoffset |-> 0 ]

MPIInitialzeCommChunks(nsend, nrecv, maxchunk) ==
    [ numsendrecv |-> Max(IF maxchunk > nsend THEN 1 ELSE CeilDiv(nsend, maxchunk),
                          IF maxchunk > nrecv THEN 1 ELSE CeilDiv(nrecv, maxchunk)),
      cursendchunksize |-> IF maxchunk > nsend THEN nsend ELSE maxchunk,
      currecvchunksize |-> IF maxchunk > nrecv THEN nrecv ELSE maxchunk,
      sendoffset |-> 0,
      recvoffset |-> 0 ]

MPIUpdateCommChunksNoClamp(nsend, nrecv, c) ==
    [ c EXCEPT !.sendoffset = c.sendoffset + c.cursendchunksize,
               !.recvoffset = c.recvoffset + c.currecvchunksize ]

MPIUpdateCommChunks(nsend, nrecv, c) ==
    [ c EXCEPT !.sendoffset = c.sendoffset + c.cursendchunksize,
               !.recvoffset = c.recvoffset + c.currecvchunksize,
               !.cursendchunksize =
                   Min(c.cursendchunksize, nsend - (c.sendoffset + c.cursendchunksize)),
               !.currecvchunksize =
                   Min(c.currecvchunksize, nrecv - (c.recvoffset + c.currecvchunksize)) ]

\* offset of the records for process j in the export buffer of process p
noffset(p, j) == SumFn([k \in 0 .. (j - 1) |-> At(mpi_nsend, p, k)], j)

\* offset of the records from process j in the import buffer of process p
nbuffer(p, j) == SumFn([k \in 0 .. (j - 1) |-> At(mpi_nsend, k, p)], j)

\* number of records process p exports, and imports
NExportOf(p) == SumFn([k \in Tasks |-> At(mpi_nsend, p, k)], NProcs)
NImportOf(p) == SumFn([k \in Tasks |-> At(mpi_nsend, k, p)], NProcs)

\* destination of the e-th (1-based) record of the sorted export buffer of p
DestOf(m, p, e) ==
    CHOOSE j \in 0 .. (NProcs - 1) :
        /\ SumFn([k \in 0 .. (j - 1) |-> m[k + p * NProcs]], j) < e
        /\ e <= SumFn([k \in 0 .. j |-> m[k + p * NProcs]], j + 1)

\* values of the chunk-loop locals when the loop of the previous pair ended
NoPair == [task |-> -1, chunks |-> MPIInitialzeCommChunks(0, 0, 1)]

\* index of the first pair at or after position pos that process p takes part
\* in, or Len(pairs)+1 when there is none (the loop's `continue`)
NextOwnPair(pairs, p, pos) ==
    LET own == { i \in pos .. Len(pairs) : p = pairs[i][1] \/ p = pairs[i][2] }
    IN  IF own = {} THEN Len(pairs) + 1
        ELSE CHOOSE i \in own : \A k \in own : i <= k

\* process p walks the pair list from position pos to its next own pair and
\* initialises the chunk loop there, or leaves the pair loop
EnterPair(m, pairs, maxchunk, p, pos) ==
    LET i == NextOwnPair(pairs, p, pos) IN
    IF i > Len(pairs)
    THEN [pos |-> i, phase |-> "done", recvTask |-> -1, ichunk |-> 0,
          chunks |-> MPIInitialzeCommChunks(0, 0, maxchunk), last |-> NoPair]
    ELSE LET sr == MPISetSendRecvTask(p, pairs[i][1], pairs[i][2])
             sendTask == sr[1]
             recvTask == sr[2]
         IN [pos |-> i, phase |-> "chunk", recvTask |-> recvTask, ichunk |-> 0,
             chunks |-> MPIInitialzeCommChunks(At(m, sendTask, recvTask),
                                               At(m, recvTask, sendTask),
                                               maxchunk),
             last |-> NoPair]

\* state right after the all-gather of MPIBuildParticleExportList: every
\* process holds the same matrix and its export buffer sorted by destination,
\* and stands at the first MPI_Sendrecv of its first pair
TransportInit ==
    /\ NProcs \in ProcCounts
    /\ mpi_nsend \in Matrices(NProcs, ItemCounts)
    /\ maxchunksize \in 1 .. MaxChunk
    /\ commpair \in MPIGenerateCommPairs(mpi_nsend)
    /\ FoFDataIn =
         [p \in Tasks |->
            [e \in 1 .. SumFn([k \in Tasks |-> mpi_nsend[k + p * NProcs]], NProcs) |->
                [Index |-> e - 1, Task |-> DestOf(mpi_nsend, p, e), iGroup |-> 0,
                 iGroupTask |-> p, iLen |-> 0]]]
    /\ FoFDataGet =
         [p \in Tasks |->
            [e \in 1 .. SumFn([k \in Tasks |-> mpi_nsend[p + k * NProcs]], NProcs) |->
                NoRecord]]
    /\ comm = [p \in Tasks |-> EnterPair(mpi_nsend, commpair, maxchunksize, p, 1)]
    /\ mpierr = FALSE
    /\ DecompIdle
    /\ LinkIdle

\* import buffer after it received cnt records of frombuf, starting at record
\* s (0-based) of frombuf, at offset r (0-based)
Received(buf, frombuf, s, r, cnt) ==
    [e \in DOMAIN buf |->
        IF r < e /\ e <= r + cnt
        THEN IF s + (e - r) \in DOMAIN frombuf THEN frombuf[s + (e - r)] ELSE NoRecord
        ELSE buf[e]]

\* the state of process p after one round of the chunk loop; after the last
\* round of the pair the process goes on to its next pair
AfterRound(p, c) ==
    LET q == c.recvTask
        upd == MPIUpdateCommChunks(At(mpi_nsend, p, q), At(mpi_nsend, q, p), c.chunks)
    IN  IF c.ichunk + 1 >= c.chunks.numsendrecv
        THEN [EnterPair(mpi_nsend, commpair, maxchunksize, p, c.pos + 1)
                 EXCEPT !.last = [task |-> q, chunks |-> upd]]
        ELSE [c EXCEPT !.chunks = upd, !.ichunk = c.ichunk + 1]

\* one matched pair of blocking MPI_Sendrecv calls between p and q, followed
\* on both sides by MPIUpdateCommChunks
SendRecvRound(p, q) ==
    /\ p < q
    /\ ~mpierr
    /\ comm[p].phase = "chunk" /\ comm[q].phase = "chunk"
    /\ comm[p].recvTask = q /\ comm[q].recvTask = p
    /\ LET cp == comm[p].chunks
           cq == comm[q].chunks
       IN IF cp.cursendchunksize > cq.currecvchunksize
             \/ cq.cursendchunksize > cp.currecvchunksize
          THEN /\ mpierr' = TRUE
               /\ UNCHANGED <<FoFDataGet, comm>>
          ELSE /\ FoFDataGet' = [FoFDataGet EXCEPT
                    ![q] = Received(FoFDataGet[q], FoFDataIn[p],
                                    noffset(p, q) + cp.sendoffset,
                                    nbuffer(q, p) + cq.recvoffset,
                                    cp.cursendchunksize),
                    ![p] = Received(FoFDataGet[p], FoFDataIn[q],
                                    noffset(q, p) + cq.sendoffset,
                                    nbuffer(p, q) + cp.recvoffset,
                                    cq.cursendchunksize)]
               /\ comm' = [comm EXCEPT ![p] = AfterRound(p, comm[p]),
                                       ![q] = AfterRound(q, comm[q])]
               /\ UNCHANGED mpierr
    /\ UNCHANGED <<NProcs, mpi_nsend, FoFDataIn, commpair, maxchunksize>>
    /\ UNCHANGED <<decompVars, linkVars>>

TransportNext == \E p, q \in Tasks : SendRecvRound(p, q)

TransportSpec == TransportInit /\ [][TransportNext]_vars

\* ------------------------------------------------------------------------
\* Transport: properties
\* ------------------------------------------------------------------------
AllDone == \A p \in Tasks : comm[p].phase = "done"

\* C7: a payload of N items sent through the chunked pairwise exchange
\* arrives complete: the exchange only stops when every process has left the
\* pair loop, and then the k-th record process p holds for process q sits
\* in q's import buffer at the offset reserved for p plus k, for every N and
\* every maximum chunk size.
C7_ChunkedRoundTrip ==
    /\ (~ENABLED TransportNext) => (AllDone /\ ~mpierr)
    /\ AllDone =>
          \A p, q \in Tasks :
             p # q =>
               \A k \in 1 .. At(mpi_nsend, p, q) :
                  FoFDataGet[q][nbuffer(q, p) + k] = FoFDataIn[p][noffset(p, q) + k]

\* a finished exchange in which some payload needed several chunks and was
\* stored at a non-zero receive offset
C7_Witness ==
    /\ AllDone
    /\ \E p, q \in Tasks :
          /\ p # q
          /\ At(mpi_nsend, p, q) > maxchunksize
          /\ nbuffer(q, p) > 0

\* C8: in every round the number of items sent and the number received are
\* each at most the maximum chunk size, and when the chunk loop of a pair
\* ends exactly nsend items have been sent and exactly nrecv received.
C8_NoTruncation ==
    /\ ~mpierr
    /\ \A p \in Tasks :
          /\ comm[p].phase = "chunk" =>
                /\ comm[p].chunks.cursendchunksize \in 0 .. maxchunksize
                /\ comm[p].chunks.currecvchunksize \in 0 .. maxchunksize
          /\ comm[p].last.task # -1 =>
                /\ comm[p].last.chunks.sendoffset = At(mpi_nsend, p, comm[p].last.task)
                /\ comm[p].last.chunks.recvoffset = At(mpi_nsend, comm[p].last.task, p)

\* a pair whose chunk loop ended after more than one round in one direction
\* and a single, shorter round in the other
C8_Witness ==
    \E p \in Tasks :
       /\ comm[p].last.task # -1
       /\ At(mpi_nsend, p, comm[p].last.task) > maxchunksize
       /\ At(mpi_nsend, comm[p].last.task, p) < maxchunksize

\* ------------------------------------------------------------------------
\* Domain decomposition
\* ------------------------------------------------------------------------
\* Lengths are whole numbers of ticks; the volume is [0, 2*NProcs] per axis
\* under the slab decomposition and [0, 2*numcellsperdim] under the mesh, so
\* that every slab and every cell is two ticks or more wide, every boundary
\* is a whole number and the points of the model lie on and between them.

RECURSIVE FloorLog2(_)
\* floor(log(n)/log(2.0))
FloorLog2(n) == IF n < 2 THEN 0 ELSE 1 + FloorLog2(n \div 2)

\* std::ceil(log(n)/log(2.0))
CeilLog2(n) == IF n <= 1 THEN 0 ELSE FloorLog2(n - 1) + 1

RECURSIVE Pow2(_)
Pow2(b) == IF b = 0 THEN 1 ELSE 2 * Pow2(b - 1)

RECURSIVE SplitExponent(_, _)
\* the while loop that lowers b until NProcs = a * 2^b
SplitExponent(n, b) ==
    IF (n \div Pow2(b)) * Pow2(b) = n THEN b ELSE SplitExponent(n, b - 1)

\* mpi_nxsplit: the b+1 halvings dealt round-robin to the axes, the first
\* axis adjusted by the factor a
SlabSplit(n) ==
    LET b == SplitExponent(n, FloorLog2(n) - 1)
        a == n \div Pow2(b)
        Nsplit == b + 1
        cnt == [k \in 0 .. 2 |-> Cardinality({ j \in 0 .. (Nsplit - 1) : j % 3 = k })]
    IN  [k \in 0 .. 2 |-> IF k = 0 THEN (Pow2(cnt[0]) \div 2) * a ELSE Pow2(cnt[k])]

\* bndval of slab i along an axis
bndval(xlim, nx, axis, i) == ((xlim[axis][1] - xlim[axis][0]) * (i + 1)) \div nx[axis]

\* bounds of the slab of task number i + j*nx + k*nx*ny
SlabDomain(xlim, nx, tasknum) ==
    LET idx == [axis \in 0 .. 2 |->
                  IF axis = 0 THEN tasknum % nx[0]
                  ELSE IF axis = 1 THEN (tasknum \div nx[0]) % nx[1]
                  ELSE tasknum \div (nx[0] * nx[1])]
    IN  [axis \in 0 .. 2 |->
           [side \in 0 .. 1 |->
              IF side = 0
              THEN IF idx[axis] = 0 THEN xlim[axis][0]
                   ELSE bndval(xlim, nx, axis, idx[axis] - 1)
              ELSE IF idx[axis] = nx[axis] - 1 THEN xlim[axis][1]
                   ELSE bndval(xlim, nx, axis, idx[axis])]]

\* opt.numcellsperdim after the default has been applied
CellsPerDim(o, np) ==
    IF o.numcellsperdim = 0
    THEN o.minnumcellperdim * Max(CeilLog2(np), 1)
    ELSE o.numcellsperdim

RECURSIVE zcurvevalue(_, _, _)
\* Morton key of a cell: bit j of coordinate i goes to bit 3*j+i
zcurvevalue(ix, iy, iz) ==
    IF ix = 0 /\ iy = 0 /\ iz = 0 THEN 0
    ELSE (ix % 2) + 2 * (iy % 2) + 4 * (iz % 2)
         + 8 * zcurvevalue(ix \div 2, iy \div 2, iz \div 2)

\* Morton key of the cell with index ix*n*n + iy*n + iz
CellKey(n, index) == zcurvevalue(index \div (n * n), (index \div n) % n, index % n)

\* position of every cell in the list of cells sorted by Morton key
ZRank(n) ==
    [c \in 0 .. (n * n * n - 1) |->
        Cardinality({ d \in 0 .. (n * n * n - 1) : CellKey(n, d) < CellKey(n, c) })]

\* mesh resolutions of the runs
MeshSizes ==
    ({ CellsPerDim([numcellsperdim |-> nc, minnumcellperdim |-> mc], np) :
          nc \in (0 .. MaxCellsPerDim) \cup ScenarioCellsPerDim,
          mc \in 1 .. MaxMinCellPerDim, np \in 2 .. MaxDecompProcs }
       \cup {MaxCellsPerDim + 1}) \ {0}

\* the sorted cell list of every mesh resolution of the runs
zcurve == [n \in MeshSizes |-> ZRank(n)]

\* cells per process, were the quotient rounded up
nsubRoundedUp(n3, np) == (n3 + np - 1) \div np

\* cells per process: max((int)floor(n3/(double)NProcs), 1)
nsub(n3, np) == Max(n3 \div np, 1)

\* the mesh part of the options after MPIInitialDomainDecompositionWithMesh
MeshDecomposition(o, np) ==
    LET n == CellsPerDim(o, np)
        n3 == n * n * n
        rank == zcurve[n]
    IN  [o EXCEPT !.numcellsperdim = n,
                  !.numcells = n3,
                  !.cellnodeids =
                      [c \in 0 .. (n3 - 1) |-> Min(rank[c] \div nsub(n3, np), np - 1)],
                  !.cellnodeorder =
                      [i \in 0 .. (n3 - 1) |-> CHOOSE c \in 0 .. (n3 - 1) : rank[c] = i],
                  !.cellnodenumparts = [c \in 0 .. (n3 - 1) |-> 0]]

\* the options and the volume a run starts from
DecompInit ==
    /\ NProcs \in 2 .. MaxDecompProcs
    /\ opt \in { [impiusemesh |-> um, numcellsperdim |-> nc, minnumcellperdim |-> mc,
                  numcells |-> 0, cellnodeids |-> <<>>, cellnodeorder |-> <<>>,
                  cellnodenumparts |-> <<>>] :
                 um \in BOOLEAN, nc \in (0 .. MaxCellsPerDim) \cup ScenarioCellsPerDim,
                 mc \in 1 .. MaxMinCellPerDim }
    /\ mpi_xlim = [axis \in 0 .. 2 |->
                     [side \in 0 .. 1 |->
                        IF side = 0 THEN 0
                        ELSE IF opt.impiusemesh THEN 2 * CellsPerDim(opt, NProcs)
                        ELSE 2 * NProcs]]
    /\ mpi_nxsplit = <<>>
    /\ mpi_domain = <<>>
    /\ located = [step |-> "start", pos |-> <<>>, owner |-> -1]
    /\ ExchangeIdle
    /\ TransportIdle
    /\ LinkIdle

MPIInitialDomainDecomposition ==
    /\ located.step = "start"
    /\ IF opt.impiusemesh
       THEN /\ opt' = MeshDecomposition(opt, NProcs)
            /\ UNCHANGED <<mpi_nxsplit, mpi_domain>>
       ELSE /\ mpi_nxsplit' = SlabSplit(NProcs)
            /\ mpi_domain' = [j \in Tasks |-> SlabDomain(mpi_xlim, SlabSplit(NProcs), j)]
            /\ UNCHANGED opt
    /\ located' = [located EXCEPT !.step = "decomposed"]
    /\ UNCHANGED <<mpi_xlim, sharedVars, transportVars, linkVars>>

\* the test of one slab in MPIGetParticlesProcessor
InSlab(bnd, x, y, z) ==
    /\ bnd[0][0] <= x /\ bnd[0][1] >= x
    /\ bnd[1][0] <= y /\ bnd[1][1] >= y
    /\ bnd[2][0] <= z /\ bnd[2][1] >= z

\* floor(x*opt.icellwidth[axis]), icellwidth being numcellsperdim over the
\* extent of the volume
CellCoord(o, xlim, axis, x) == (x * o.numcellsperdim) \div (xlim[axis][1] - xlim[axis][0])

\* index of the cell MPIGetParticlesProcessor computes for a point
CellIndex(o, xlim, x, y, z) ==
    CellCoord(o, xlim, 0, x) * o.numcellsperdim * o.numcellsperdim
    + CellCoord(o, xlim, 1, y) * o.numcellsperdim
    + CellCoord(o, xlim, 2, z)

\* value MPIGetParticlesProcessor returns; -1 is returned after MPI_Abort
ParticlesProcessor(x, y, z) ==
    IF NProcs = 1 THEN 0
    ELSE IF opt.impiusemesh
    THEN IF CellIndex(opt, mpi_xlim, x, y, z) < opt.numcells
         THEN opt.cellnodeids[CellIndex(opt, mpi_xlim, x, y, z)]
         ELSE -1
    ELSE LET in == { j \in Tasks : InSlab(mpi_domain[j], x, y, z) }
         IN  IF in = {} THEN -1 ELSE CHOOSE j \in in : \A k \in in : j <= k

\* one owner query; the count of the cell is raised before the range of the
\* index is tested, and a write past the end of the vector is followed by the
\* abort whatever it hit
MPIGetParticlesProcessor(x, y, z) ==
    /\ located.step = "decomposed"
    /\ located' = [step |-> "located", pos |-> <<x, y, z>>,
                   owner |-> ParticlesProcessor(x, y, z)]
    /\ opt' = IF opt.impiusemesh /\ NProcs # 1
                 /\ CellIndex(opt, mpi_xlim, x, y, z) < opt.numcells
              THEN [opt EXCEPT !.cellnodenumparts[CellIndex(opt, mpi_xlim, x, y, z)] = @ + 1]
              ELSE opt
    /\ UNCHANGED <<mpi_xlim, mpi_nxsplit, mpi_domain, sharedVars, transportVars, linkVars>>

DecompNext ==
    \/ MPIInitialDomainDecomposition
    \/ \E x \in mpi_xlim[0][0] .. (mpi_xlim[0][1] + 1),
          y \in mpi_xlim[1][0] .. (mpi_xlim[1][1] + 1),
          z \in mpi_xlim[2][0] .. (mpi_xlim[2][1] + 1) : MPIGetParticlesProcessor(x, y, z)

DecompSpec == DecompInit /\ [][DecompNext]_vars

\* ------------------------------------------------------------------------
\* Domain decomposition: properties
\* ------------------------------------------------------------------------
\* the processes whose domain contains a point: the slabs that pass the
\* containment test, or the owner of the mesh cell the point lies in
Owners(x, y, z) ==
    IF opt.impiusemesh
    THEN { j \in Tasks :
             \E c \in 0 .. (opt.numcells - 1) :
                /\ opt.cellnodeids[c] = j
                /\ c \div (opt.numcellsperdim * opt.numcellsperdim)
                      = CellCoord(opt, mpi_xlim, 0, x)
                /\ (c \div opt.numcellsperdim) % opt.numcellsperdim
                      = CellCoord(opt, mpi_xlim, 1, y)
                /\ c % opt.numcellsperdim = CellCoord(opt, mpi_xlim, 2, z) }
    ELSE { j \in Tasks : InSlab(mpi_domain[j], x, y, z) }

\* the point lies in the closed simulation volume
InVolume(x, y, z) ==
    /\ mpi_xlim[0][0] <= x /\ x <= mpi_xlim[0][1]
    /\ mpi_xlim[1][0] <= y /\ y <= mpi_xlim[1][1]
    /\ mpi_xlim[2][0] <= z /\ z <= mpi_xlim[2][1]

\* the point lies on the boundary of the slab
OnSlabFace(bnd, x, y, z) ==
    \/ x = bnd[0][0] \/ x = bnd[0][1]
    \/ y = bnd[1][0] \/ y = bnd[1][1]
    \/ z = bnd[2][0] \/ z = bnd[2][1]

\* C1: after a decomposition every point of the simulation volume maps to
\* exactly one owning process: it lies in the domain of one process and of
\* no other (no gaps, no overlaps), under the slab and under the mesh
\* decomposition, and that process is the owner MPIGetParticlesProcessor
\* returns.
C1_ExactlyOneDomain ==
    (located.step = "located"
       /\ InVolume(located.pos[1], located.pos[2], located.pos[3])) =>
       /\ Cardinality(Owners(located.pos[1], located.pos[2], located.pos[3])) = 1
       /\ located.owner \in Owners(located.pos[1], located.pos[2], located.pos[3])

\* an owner query under the mesh decomposition for a point on the upper face
\* of the volume: the cell index is out of range and the query aborts
C1_Witness ==
    /\ located.step = "located"
    /\ opt.impiusemesh
    /\ located.pos[1] = mpi_xlim[0][1]
    /\ located.owner = -1

\* What the owner query does guarantee. Under the slab decomposition every
\* point of the volume gets the lowest-ranked process whose closed slab
\* contains it, and the slabs of two processes meet only in their boundary
\* faces. Under the mesh decomposition every point whose coordinates are all
\* below the upper limit of the volume gets the owner of the cell it lies in.
OwnerQueryGuarantee ==
    (located.step = "located"
       /\ InVolume(located.pos[1], located.pos[2], located.pos[3])) =>
       LET x == located.pos[1]
           y == located.pos[2]
           z == located.pos[3]
       IN  IF opt.impiusemesh
           THEN (x < mpi_xlim[0][1] /\ y < mpi_xlim[1][1] /\ z < mpi_xlim[2][1])
                   => Owners(x, y, z) = {located.owner}
           ELSE /\ located.owner \in Owners(x, y, z)
                /\ \A j \in Owners(x, y, z) :
                      j # located.owner =>
                         /\ located.owner < j
                         /\ OnSlabFace(mpi_domain[j], x, y, z)
                         /\ OnSlabFace(mpi_domain[located.owner], x, y, z)

\* ------------------------------------------------------------------------
\* Cross-domain linking: the particles and the local FOF seed
\* ------------------------------------------------------------------------
\* The linking specification runs on a slab decomposition of the volume
\* [0, NProcs]^3, one tick per slab, with the particles on the line y = z = 0
\* at whole ticks. The linking length lies strictly between rdist and
\* rdist + 1 ticks, so no distance the model compares equals it. The local
\* arrays are sequences: index i of the model is index i-1 of the code, and
\* the end of a chain is 0 where the code has -1.

\* whole ticks in the linking length
rdist == 1

\* position of a particle, per axis
Position(part) == [axis \in 0 .. 2 |-> IF axis = 0 THEN part.x ELSE 0]

\* the search box of a particle: its position -/+ rdist per axis
xsearchOf(part) ==
    [axis \in 0 .. 2 |->
        [side \in 0 .. 1 |->
            IF side = 0 THEN Position(part)[axis] - rdist
            ELSE Position(part)[axis] + rdist]]

\* the search box and the bounds are not disjoint
BoxesMeet(xsearch, bnd) ==
    ~ \/ bnd[0][1] < xsearch[0][0] \/ bnd[0][0] > xsearch[0][1]
      \/ bnd[1][1] < xsearch[1][0] \/ bnd[1][0] > xsearch[1][1]
      \/ bnd[2][1] < xsearch[2][0] \/ bnd[2][0] > xsearch[2][1]

MPIInDomain(xsearch, bnd) ==
    IF NProcs = 1 THEN TRUE
    ELSE IF BoxesMeet(xsearch, bnd) THEN TRUE
    ELSE IF mpi_period = 0 THEN FALSE
    ELSE LET shift == [j \in 0 .. 2 |->
                 IF ~(bnd[j][1] < xsearch[j][0] + mpi_period
                      \/ bnd[j][0] > xsearch[j][1] + mpi_period)
                 THEN mpi_period
                 ELSE IF ~(bnd[j][1] < xsearch[j][0] - mpi_period
                           \/ bnd[j][0] > xsearch[j][1] - mpi_period)
                 THEN 0 - mpi_period
                 ELSE 0]
             xsearchp == [j \in 0 .. 2 |->
                            [side \in 0 .. 1 |-> xsearch[j][side] + shift[j]]]
         IN  BoxesMeet(xsearchp, bnd)

\* two particles are within the linking length of each other
Near(a, b) == (a.x - b.x) * (a.x - b.x) <= rdist * rdist

\* the ball search of the local tree around a position: the local particles
\* within the linking length, which the tree returns in an order of its own
SearchBallPosTagged(parts, part) == { k \in DOMAIN parts : Near(parts[k], part) }

RECURSIVE Reach(_, _)
\* the particles linked to a set of local particles by chains of near pairs
Reach(parts, S) ==
    LET T == S \cup { j \in DOMAIN parts : \E i \in S : Near(parts[i], parts[j]) }
    IN  IF T = S THEN S ELSE Reach(parts, T)

\* the serial FOF seed of one process: the local groups are the linked sets
\* of two or more particles, numbered from 1; each is chained from its first
\* particle, and every member records the length of the group
SeedGroup(parts, i) == Reach(parts, {i})
SeedHead(parts, i) == CHOOSE h \in SeedGroup(parts, i) : \A j \in SeedGroup(parts, i) : h <= j
SeedNext(parts, i) ==
    LET later == { j \in SeedGroup(parts, i) : j > i }
    IN  IF later = {} THEN 0 ELSE CHOOSE n \in later : \A j \in later : n <= j
SeedLen(parts, i) == Cardinality(SeedGroup(parts, i))
SeedHeads(parts) ==
    { h \in DOMAIN parts : SeedHead(parts, h) = h /\ SeedLen(parts, h) > 1 }
SeedPfof(parts, i) ==
    IF SeedLen(parts, i) > 1
    THEN 1 + Cardinality({ h \in SeedHeads(parts) : h < SeedHead(parts, i) })
    ELSE 0

\* the rank orders, were the largest count stored first
RankOrdersDescending(nlocal) ==
    { r \in Orderings(DOMAIN nlocal) :
        \A a, b \in DOMAIN r : a < b => nlocal[r[a]] >= nlocal[r[b]] }

\* the orders in which the priority queue can hand out the processes: the
\* largest count is popped first and stored last, equal counts in an order
\* of the queue's own
RankOrders(nlocal) ==
    { r \in Orderings(DOMAIN nlocal) :
        \A a, b \in DOMAIN r : a < b => nlocal[r[a]] <= nlocal[r[b]] }

\* sum of count[q] over the processes q ranked before process p
RankedBefore(rank, count, p) ==
    LET at == CHOOSE a \in DOMAIN rank : rank[a] = p
    IN  SumFn([k \in 0 .. (at - 2) |-> count[rank[k + 1]]], at - 1)

\* MPIAdjustLocalGroupIDs: the group ids of process p after the offset
AdjustedPfof(rank, nlocal, p, ids) ==
    [i \in DOMAIN ids |->
        IF ids[i] > 0 THEN ids[i] + RankedBefore(rank, nlocal, p) ELSE ids[i]]

\* the local arrays that hold the particles at the given positions, the
\* particle with PID g at position xs[g], each on the process the slab
\* decomposition gives it, in the order of their PIDs
RECURSIVE LocalParts(_, _, _, _)
LocalParts(xs, home, p, g) ==
    IF g = 0 THEN <<>>
    ELSE IF home[g] = p
         THEN Append(LocalParts(xs, home, p, g - 1), [x |-> xs[g], PID |-> g])
         ELSE LocalParts(xs, home, p, g - 1)

\* owner of the point (x, 0, 0) under the slab decomposition of np processes
SlabOwner(np, xlim, x) ==
    LET in == { j \in 0 .. (np - 1) : InSlab(SlabDomain(xlim, SlabSplit(np), j), x, 0, 0) }
    IN  CHOOSE j \in in : \A k \in in : j <= k

\* the volume of the linking specification
LinkVolume(np) == [axis \in 0 .. 2 |-> [side \in 0 .. 1 |-> IF side = 0 THEN 0 ELSE np]]

\* the particle sets of the linking specification: the particles sit on the
\* upper faces of the slabs, one linking length apart, every process holds a
\* particle and the PIDs are unique
LinkParticles(np) ==
    LET owner == [x \in 1 .. np |-> SlabOwner(np, LinkVolume(np), x)]
    IN  { [p \in 0 .. (np - 1) |->
              LocalParts(xs, [g \in DOMAIN xs |-> owner[xs[g]]], p, Len(xs))] :
            xs \in { ys \in UNION { [1 .. n -> 1 .. np] : n \in np .. MaxPart } :
                       \A p \in 0 .. (np - 1) : \E g \in DOMAIN ys : owner[ys[g]] = p } }

\* state before the export planner runs, for given particles in the volume
\* xlim: the serial FOF has run on every process, MPISetTaskID has made every process the owner of
\* its particles and MPIAdjustLocalGroupIDs has offset the ids
LinkStartIn(xlim) ==
    /\ mpi_period = 0
    /\ mpi_xlim = xlim
    /\ mpi_nxsplit = SlabSplit(NProcs)
    /\ mpi_domain = [j \in Tasks |-> SlabDomain(mpi_xlim, mpi_nxsplit, j)]
    /\ opt = [impiusemesh |-> FALSE, numcellsperdim |-> 0, minnumcellperdim |-> 1,
              numcells |-> 0, cellnodeids |-> <<>>, cellnodeorder |-> <<>>,
              cellnodenumparts |-> <<>>]
    /\ located = <<>>
    /\ mpi_nlocal = [p \in Tasks |-> Len(Part[p])]
    /\ mpi_ngroups = [p \in Tasks |-> Cardinality(SeedHeads(Part[p]))]
    /\ rankorder \in RankOrders(mpi_nlocal)
    /\ pfof = [p \in Tasks |->
                 AdjustedPfof(rankorder, mpi_nlocal, p,
                              [i \in DOMAIN Part[p] |-> SeedPfof(Part[p], i)])]
    /\ mpi_maxgid = [p \in Tasks |-> SumFn(mpi_nlocal, NProcs)]
    /\ mpi_gidoffset = [p \in Tasks |-> RankedBefore(rankorder, mpi_ngroups, p)]
    /\ mpi_foftask = [p \in Tasks |-> [i \in DOMAIN Part[p] |-> p]]
    /\ GroupLen = [p \in Tasks |-> [i \in DOMAIN Part[p] |-> SeedLen(Part[p], i)]]
    /\ ChainHead = [p \in Tasks |-> [i \in DOMAIN Part[p] |-> SeedHead(Part[p], i)]]
    /\ ChainNext = [p \in Tasks |-> [i \in DOMAIN Part[p] |-> SeedNext(Part[p], i)]]
    /\ mpi_nsend = [k \in 0 .. (NProcs * NProcs - 1) |-> 0]
    /\ FoFDataIn = [p \in Tasks |-> <<>>]
    /\ FoFDataGet = [p \in Tasks |-> <<>>]
    /\ PartDataGet = [p \in Tasks |-> <<>>]
    /\ NExport = [p \in Tasks |-> 0]
    /\ NImport = [p \in Tasks |-> 0]
    /\ links = [p \in Tasks |-> 0]
    /\ linkstep = [stage |-> "start", done |-> {}]
    /\ lastpass = <<>>
    /\ FoFGroupDataLocal = [p \in Tasks |-> <<>>]
    /\ Nlocal = mpi_nlocal
    /\ TransportIdle

\* the same in the volume of the linking specification
LinkStart == LinkStartIn(LinkVolume(NProcs))

\* state before the export planner runs: the particles are distributed
LinkInit ==
    /\ NProcs \in ProcCounts
    /\ Part \in LinkParticles(NProcs)
    /\ LinkStart

\* ------------------------------------------------------------------------
\* Cross-domain linking: the export planner
\* ------------------------------------------------------------------------
\* the (particle, destination) pairs for which process p raises nexport and
\* nsend_local[destination]
ExportPairs(p) ==
    { pr \in (DOMAIN Part[p]) \X Tasks :
        pr[2] # p /\ MPIInDomain(xsearchOf(Part[p][pr[1]]), mpi_domain[pr[2]]) }

\* nsend_local of process p
nsend_local(p) == [j \in Tasks |-> Cardinality({ pr \in ExportPairs(p) : pr[2] = j })]

\* MPI_Allgather of the rows, with the rows stored as columns
AllgatherTransposed(rows) ==
    [k \in 0 .. (NProcs * NProcs - 1) |-> rows[k % NProcs][k \div NProcs]]

\* MPI_Allgather of the rows: the row of process m is stored at m*NProcs
Allgather(rows) ==
    [k \in 0 .. (NProcs * NProcs - 1) |-> rows[k \div NProcs][k % NProcs]]

\* sum of column p of a flat matrix
ColumnSum(m, p) == SumFn([j \in Tasks |-> m[p + j * NProcs]], NProcs)

\* MPIGetExportNum on every process, meeting in the all-gather
MPIGetExportNum ==
    /\ linkstep.stage = "start"
    /\ NExport' = [p \in Tasks |-> Cardinality(ExportPairs(p))]
    /\ mpi_nsend' = Allgather([p \in Tasks |-> nsend_local(p)])
    /\ NImport' = [p \in Tasks |-> ColumnSum(mpi_nsend', p)]
    /\ linkstep' = [linkstep EXCEPT !.stage = "counted"]
    /\ UNCHANGED <<NProcs, FoFDataIn, FoFDataGet, transportVars, decompVars>>
    /\ UNCHANGED <<mpi_period, Part, pfof, mpi_foftask, GroupLen, ChainHead, ChainNext,
                   mpi_nlocal, mpi_ngroups, rankorder, mpi_maxgid, mpi_gidoffset,
                   PartDataGet, links, lastpass, FoFGroupDataLocal, Nlocal>>

RECURSIVE ExportRecords(_, _, _)
\* the export records of process p for destination j among its first n
\* particles, in the order of the particles
ExportRecords(p, j, n) ==
    IF n = 0 THEN <<>>
    ELSE IF <<n, j>> \in ExportPairs(p)
         THEN Append(ExportRecords(p, j, n - 1),
                     [Index |-> n, Task |-> j, iGroup |-> pfof[p][n],
                      iGroupTask |-> p, iLen |-> GroupLen[p][n]])
         ELSE ExportRecords(p, j, n - 1)

RECURSIVE SortedExport(_, _)
\* the export buffer of process p after the sort by destination, for the
\* destinations below j
SortedExport(p, j) ==
    IF j = 0 THEN <<>>
    ELSE SortedExport(p, j - 1) \o ExportRecords(p, j - 1, Len(Part[p]))

\* the buffers every process holds after the pairwise exchange of the send
\* buffers: the records of process j for process q lie in q's buffer from
\* the offset nbuffer reserved for j, in the order they had in j's buffer
Exchanged(m, sendbuf) ==
    [q \in Tasks |->
        [e \in 1 .. ColumnSum(m, q) |->
            LET j == CHOOSE t \in Tasks :
                        /\ SumFn([k \in 0 .. (t - 1) |-> m[q + k * NProcs]], t) < e
                        /\ e <= SumFn([k \in 0 .. t |-> m[q + k * NProcs]], t + 1)
                off == e - SumFn([k \in 0 .. (j - 1) |-> m[q + k * NProcs]], j)
            IN  sendbuf[j][SumFn([k \in 0 .. (q - 1) |-> m[k + j * NProcs]], q) + off]]]

\* MPIBuildParticleExportList on every process, with its exchange
MPIBuildParticleExportList ==
    /\ linkstep.stage = "counted"
    /\ FoFDataIn' = [p \in Tasks |-> SortedExport(p, NProcs)]
    /\ mpi_nsend' = Allgather([p \in Tasks |-> nsend_local(p)])
    /\ NImport' = [p \in Tasks |-> ColumnSum(mpi_nsend', p)]
    /\ FoFDataGet' = Exchanged(mpi_nsend', FoFDataIn')
    /\ PartDataGet' =
          Exchanged(mpi_nsend',
                    [p \in Tasks |->
                        [e \in DOMAIN FoFDataIn'[p] |-> Part[p][FoFDataIn'[p][e].Index]]])
    /\ linkstep' = [stage |-> "loop", done |-> {}]
    /\ UNCHANGED <<NProcs, transportVars, decompVars>>
    /\ UNCHANGED <<mpi_period, Part, pfof, mpi_foftask, GroupLen, ChainHead, ChainNext,
                   mpi_nlocal, mpi_ngroups, rankorder, mpi_maxgid, mpi_gidoffset,
                   NExport, links, lastpass, FoFGroupDataLocal, Nlocal>>

\* ------------------------------------------------------------------------
\* Cross-domain linking: MPILinkAcross and MPIUpdateExportList
\* ------------------------------------------------------------------------
\* the local particle creates the group when its PID is the lower one
LocalCreatesIfLower(localPID, foreignPID) == localPID < foreignPID

\* the local group is relabelled also when the two ids are equal
LocalYieldsOrEqual(localid, foreignid) == localid >= foreignid

\* the local particle creates the group when both particles are ungrouped
LocalCreates(localPID, foreignPID) == localPID > foreignPID

\* the local group is relabelled whenever the two ids differ
LocalYieldsIfDifferent(localid, foreignid) == localid # foreignid

\* the local group is relabelled when its id is the smaller one
LocalYieldsIfSmaller(localid, foreignid) == localid < foreignid

\* the local group is relabelled when both particles are grouped
LocalYields(localid, foreignid) == localid > foreignid

RECURSIVE ChainFrom(_, _)
\* the particles the do-while loop visits from particle ss on
ChainFrom(p, ss) ==
    {ss} \cup (IF ChainNext[p][ss] > 0 THEN ChainFrom(p, ChainNext[p][ss]) ELSE {})

\* entry of the pass log: the group ids of all processes before and after
\* the merge
Merge(p, kind, ls, newpfof) ==
    [kind |-> kind, task |-> p,
     before |-> [pfof EXCEPT ![p] = ls.pfof],
     after |-> [pfof EXCEPT ![p] = newpfof]]

\* the body of the inner loop of MPILinkAcross for imported record i and
\* local particle k, on the local state ls of process p
LinkHit(p, ls, i, k) ==
    LET rec == ls.get[i]
        h == ChainHead[p][k]
    IN  IF rec.iGroup = 0
        THEN IF ls.pfof[h] = 0 /\ LocalCreates(Part[p][h].PID, PartDataGet[p][i].PID)
             THEN LET new == [ls.pfof EXCEPT ![k] = mpi_maxgid[p] + ls.gidoffset]
                  IN  [ls EXCEPT !.pfof = new,
                                 !.gidoffset = @ + 1,
                                 !.len[k] = 1,
                                 !.foftask[k] = rec.iGroupTask,
                                 !.links = @ + 1,
                                 !.log = Append(@, Merge(p, "create", ls, new))]
             ELSE ls
        ELSE IF ls.pfof[h] > 0
        THEN IF LocalYields(ls.pfof[h], rec.iGroup)
             THEN LET chain == ChainFrom(p, h)
                      oldlen == ls.len[k]
                      new == [j \in DOMAIN ls.pfof |->
                                 IF j \in chain THEN rec.iGroup ELSE ls.pfof[j]]
                  IN  [ls EXCEPT !.pfof = new,
                                 !.foftask = [j \in DOMAIN ls.foftask |->
                                     IF j \in chain THEN rec.iGroupTask ELSE ls.foftask[j]],
                                 !.len = [j \in DOMAIN ls.len |->
                                     IF j \in chain THEN rec.iLen + oldlen ELSE ls.len[j]],
                                 !.get[i].iLen = @ + oldlen,
                                 !.links = @ + 1,
                                 !.log = Append(@, Merge(p, "relabel", ls, new))]
             ELSE ls
        ELSE LET new == [ls.pfof EXCEPT ![k] = rec.iGroup]
             IN  [ls EXCEPT !.pfof = new,
                            !.len[k] = rec.iLen,
                            !.foftask[k] = rec.iGroupTask,
                            !.get[i].iLen = @ + 1,
                            !.links = @ + 1,
                            !.log = Append(@, Merge(p, "absorb", ls, new))]

RECURSIVE LinkHits(_, _, _, _, _)
\* the inner loop over the particles the ball search returned for record i,
\* taken in the order ord, from position n of ord on
LinkHits(p, ls, i, ord, n) ==
    IF n > Len(ord) THEN ls
    ELSE IF ord[n] \in SearchBallPosTagged(Part[p], PartDataGet[p][i])
         THEN LinkHits(p, LinkHit(p, ls, i, ord[n]), i, ord, n + 1)
         ELSE LinkHits(p, ls, i, ord, n + 1)

RECURSIVE LinkImports(_, _, _, _)
\* the outer loop over the imported records, from record i on
LinkImports(p, ls, i, ord) ==
    IF i > NImport[p] THEN ls
    ELSE LinkImports(p, LinkHits(p, ls, i, ord, 1), i + 1, ord)

\* the orders in which the tree search hands out the n local particles: the
\* search list is walked forwards by the code, the tree may fill it in storage
\* order or in the reverse of it
HitOrders(n) == { [i \in 1 .. n |-> i], [i \in 1 .. n |-> n + 1 - i] }

\* one call of MPILinkAcross on process p; ord is the order in which the
\* tree hands out the local particles
MPILinkAcross(p, ord) ==
    /\ linkstep.stage = "loop"
    /\ p \notin linkstep.done
    /\ LET ls == LinkImports(p, [pfof |-> pfof[p], foftask |-> mpi_foftask[p],
                                 len |-> GroupLen[p], gidoffset |-> mpi_gidoffset[p],
                                 get |-> FoFDataGet[p], links |-> 0, log |-> <<>>],
                             1, ord)
       IN  /\ pfof' = [pfof EXCEPT ![p] = ls.pfof]
           /\ mpi_foftask' = [mpi_foftask EXCEPT ![p] = ls.foftask]
           /\ GroupLen' = [GroupLen EXCEPT ![p] = ls.len]
           /\ mpi_gidoffset' = [mpi_gidoffset EXCEPT ![p] = ls.gidoffset]
           /\ FoFDataGet' = [FoFDataGet EXCEPT ![p] = ls.get]
           /\ links' = [links EXCEPT ![p] = ls.links]
           /\ lastpass' = ls.log
    /\ linkstep' = [linkstep EXCEPT !.done = @ \cup {p}]
    /\ UNCHANGED <<NProcs, mpi_nsend, FoFDataIn, transportVars, decompVars>>
    /\ UNCHANGED <<mpi_period, Part, ChainHead, ChainNext, mpi_nlocal, mpi_ngroups,
                   rankorder, mpi_maxgid, PartDataGet, NExport, NImport,
                   FoFGroupDataLocal, Nlocal>>

\* the test of the driving loop: the all-reduced number of links is not zero
LinksAcrossTotal == SumFn(links, NProcs)

\* MPIUpdateExportList on every process, with its exchange, followed by the
\* all-reduce of the driving loop
MPIUpdateExportList ==
    /\ linkstep.stage = "loop"
    /\ linkstep.done = Tasks
    /\ FoFDataIn' =
          [p \in Tasks |->
              [e \in DOMAIN FoFDataIn[p] |->
                  [FoFDataIn[p][e] EXCEPT
                      !.iGroup = pfof[p][FoFDataIn[p][e].Index],
                      !.iGroupTask = mpi_foftask[p][FoFDataIn[p][e].Index],
                      !.iLen = GroupLen[p][FoFDataIn[p][e].Index]]]]
    /\ FoFDataGet' = Exchanged(mpi_nsend, FoFDataIn')
    /\ linkstep' = [stage |-> IF LinksAcrossTotal > 0 THEN "loop" ELSE "converged",
                    done |-> {}]
    /\ UNCHANGED <<NProcs, mpi_nsend, transportVars, decompVars>>
    /\ UNCHANGED <<mpi_period, Part, pfof, mpi_foftask, GroupLen, ChainHead, ChainNext,
                   mpi_nlocal, mpi_ngroups, rankorder, mpi_maxgid, mpi_gidoffset,
                   PartDataGet, NExport, NImport, links, lastpass,
                   FoFGroupDataLocal, Nlocal>>

\* ------------------------------------------------------------------------
\* Group migration: MPIGroupExchange
\* ------------------------------------------------------------------------
RECURSIVE SortedSeq(_)
\* the members of a finite set of numbers in ascending order
SortedSeq(S) ==
    IF S = {} THEN <<>>
    ELSE LET m == CHOOSE a \in S : \A b \in S : b <= a
         IN  Append(SortedSeq(S \ {m}), m)

\* nsend_local of MPIGroupExchange: the particles of process p owned by j
nsend_group(p) ==
    [j \in Tasks |->
        IF j = p THEN 0
        ELSE Cardinality({ i \in DOMAIN mpi_foftask[p] : mpi_foftask[p][i] = j })]

\* nlocal without the imported particles
NewLocalCountNoImport(nbodies, nexport, nimport) == nbodies - nexport

\* nlocal = nbodies - nexport + nimport
NewLocalCount(nbodies, nexport, nimport) == nbodies - nexport + nimport

\* the local array order after the sort on (owner is another process): the
\* particles that stay come first
KeptFirst(p) ==
    SortedSeq({ i \in DOMAIN mpi_foftask[p] : mpi_foftask[p][i] = p })
    \o SortedSeq({ i \in DOMAIN mpi_foftask[p] : mpi_foftask[p][i] # p })

RECURSIVE GroupExport(_, _, _, _, _)
\* FoFGroupDataExport of process p for the owners below j: the particles at
\* the end of the sorted arrays, grouped by owner
GroupExport(p, parts, ids, tasks, j) ==
    IF j = 0 THEN <<>>
    ELSE LET own == SortedSeq({ i \in DOMAIN tasks : tasks[i] = j - 1 /\ j - 1 # p })
         IN  GroupExport(p, parts, ids, tasks, j - 1)
             \o [e \in DOMAIN own |->
                    [p |-> parts[own[e]], Index |-> own[e], Task |-> j - 1,
                     iGroup |-> ids[own[e]]]]

\* MPIGroupExchange on every process, with its exchange
MPIGroupExchange ==
    /\ linkstep.stage = "converged"
    /\ mpi_nsend' = Allgather([p \in Tasks |-> nsend_group(p)])
    /\ NImport' = [p \in Tasks |-> ColumnSum(mpi_nsend', p)]
    /\ Nlocal' = [p \in Tasks |->
                    NewLocalCount(Len(Part[p]),
                                  SumFn([j \in Tasks |-> mpi_nsend'[j + p * NProcs]], NProcs),
                                  ColumnSum(mpi_nsend', p))]
    /\ Part' = [p \in Tasks |-> [i \in DOMAIN Part[p] |-> Part[p][KeptFirst(p)[i]]]]
    /\ pfof' = [p \in Tasks |-> [i \in DOMAIN Part[p] |-> pfof[p][KeptFirst(p)[i]]]]
    /\ mpi_foftask' =
          [p \in Tasks |-> [i \in DOMAIN Part[p] |-> mpi_foftask[p][KeptFirst(p)[i]]]]
    /\ FoFGroupDataLocal' =
          Exchanged(mpi_nsend',
                    [p \in Tasks |->
                        GroupExport(p, Part'[p], pfof'[p], mpi_foftask'[p], NProcs)])
    /\ linkstep' = [linkstep EXCEPT !.stage = "exchanged"]
    /\ UNCHANGED <<NProcs, FoFDataIn, FoFDataGet, transportVars, decompVars>>
    /\ UNCHANGED <<mpi_period, GroupLen, ChainHead, ChainNext, mpi_nlocal, mpi_ngroups,
                   rankorder, mpi_maxgid, mpi_gidoffset, PartDataGet, NExport, links,
                   lastpass>>

\* ------------------------------------------------------------------------
\* Group compaction: MPICompileGroups
\* ------------------------------------------------------------------------
\* Noldlocal = nbodies - nexport of MPIGroupExchange: the particles that stayed
Noldlocal(p) ==
    Len(Part[p]) - SumFn([j \in Tasks |-> mpi_nsend[j + p * NProcs]], NProcs)

\* the particle array at the first sort: the particles that stayed carry
\* minus their group id in ID, the imported particles are copied in behind
\* them with minus the group id of their record
CompileInput(p) ==
    [i \in 1 .. Nlocal[p] |->
        IF i <= Noldlocal(p)
        THEN [p |-> Part[p][i], ID |-> 0 - pfof[p][i]]
        ELSE [p |-> FoFGroupDataLocal[p][i - Noldlocal(p)].p,
              ID |-> 0 - FoFGroupDataLocal[p][i - Noldlocal(p)].iGroup]]

RECURSIVE StretchDomainSwapped(_, _, _, _)
\* localdomain, were the opposite bound moved to the imported particle
StretchDomainSwapped(bnd, own, imports, e) ==
    IF e > Len(imports) THEN bnd
    ELSE LET x == Position(imports[e].p)
         IN  StretchDomainSwapped(
                 [j \in 0 .. 2 |->
                     IF x[j] < own[j][0] THEN [bnd[j] EXCEPT ![1] = x[j]]
                     ELSE IF x[j] > own[j][1] THEN [bnd[j] EXCEPT ![0] = x[j]]
                     ELSE bnd[j]],
                 own, imports, e + 1)

RECURSIVE StretchDomain(_, _, _, _)
\* localdomain after the imported particles from e on: a bound of the own
\* slab is moved to the coordinate of an imported particle beyond it
StretchDomain(bnd, own, imports, e) ==
    IF e > Len(imports) THEN bnd
    ELSE LET x == Position(imports[e].p)
         IN  StretchDomain(
                 [j \in 0 .. 2 |->
                     IF x[j] < own[j][0] THEN [bnd[j] EXCEPT ![0] = x[j]]
                     ELSE IF x[j] > own[j][1] THEN [bnd[j] EXCEPT ![1] = x[j]]
                     ELSE bnd[j]],
                 own, imports, e + 1)

RECURSIVE SortByID(_)
\* std::sort with IDCompareVec: ascending ID, so the largest group id comes
\* first and the ungrouped particles (ID 0) last
SortByID(arr) ==
    IF arr = <<>> THEN <<>>
    ELSE LET n == Len(arr)
             head == SortByID(SubSeq(arr, 1, n - 1))
             pos == Cardinality({ j \in 1 .. (n - 1) : head[j].ID <= arr[n].ID })
         IN  SubSeq(head, 1, pos) \o <<arr[n]>> \o SubSeq(head, pos + 1, n - 1)

RECURSIVE FilterSmallRuns(_, _, _, _, _)
\* the loop that closes a run when the ID changes, sets the run to 0 if it
\* is shorter than minsize and counts it otherwise, and stops at the first
\* particle with ID >= 0
FilterSmallRuns(arr, i, start, ngroups, minsize) ==
    IF i > Len(arr) THEN [arr |-> arr, ngroups |-> ngroups]
    ELSE LET closes == arr[i].ID # arr[start].ID
             small == (i - start) < minsize
             arr1 == IF closes /\ small
                     THEN [j \in DOMAIN arr |->
                              IF j >= start /\ j < i
                              THEN [arr[j] EXCEPT !.ID = 0] ELSE arr[j]]
                     ELSE arr
             ngroups1 == IF closes /\ ~small THEN ngroups + 1 ELSE ngroups
             start1 == IF closes THEN i ELSE start
         IN  IF arr[i].ID >= 0 THEN [arr |-> arr1, ngroups |-> ngroups1]
             ELSE FilterSmallRuns(arr1, i + 1, start1, ngroups1, minsize)

\* the loop that sets the ID of the last nexport particles of the array to 0
ZeroTail(arr, nexport) ==
    [j \in DOMAIN arr |->
        IF j > Len(arr) - nexport THEN [arr[j] EXCEPT !.ID = 0] ELSE arr[j]]

RECURSIVE CountRuns(_, _, _, _)
\* the loop that builds numingroup and plist: a group is counted when the
\* group id changes, and the loop stops at the first ungrouped particle
CountRuns(ids, i, start, ngroups) ==
    IF i > Len(ids) THEN ngroups - 1
    ELSE LET closes == ids[i] # ids[start]
             ngroups1 == IF closes THEN ngroups + 1 ELSE ngroups
             start1 == IF closes THEN i ELSE start
         IN  IF ids[i] = 0 THEN ngroups1 - 1
             ELSE CountRuns(ids, i + 1, start1, ngroups1)

\* the particle array of process p after the second sort and the loop over
\* the last NExport particles
Compacted(p, minsize) ==
    ZeroTail(SortByID(FilterSmallRuns(SortByID(CompileInput(p)), 1, 1, 0, minsize).arr),
             NExport[p])

\* MPICompileGroups on every process. NExport is the count the export planner
\* left. A process with fewer particles than NExport writes in front of its
\* array: the processes that do are kept in linkstep.outside, and the array
\* itself holds what the writes inside it leave. ReorderGroupIDs, which
\* renumbers the groups by size, is not part of this source: pfof holds the
\* ids as they are before it.
MPICompileGroups(minsize) ==
    /\ linkstep.stage = "exchanged"
    /\ mpi_domain' =
          IF opt.impiusemesh THEN mpi_domain
          ELSE [p \in Tasks |->
                   StretchDomain(mpi_domain[p], mpi_domain[p], FoFGroupDataLocal[p], 1)]
    /\ Part' = [p \in Tasks |->
                  [i \in 1 .. Nlocal[p] |-> Compacted(p, minsize)[i].p]]
    /\ pfof' = [p \in Tasks |->
                  [i \in 1 .. Nlocal[p] |-> 0 - Compacted(p, minsize)[i].ID]]
    /\ mpi_ngroups' = [p \in Tasks |-> CountRuns(pfof'[p], 1, 1, 1)]
    /\ FoFGroupDataLocal' = [p \in Tasks |-> <<>>]
    /\ linkstep' = [stage |-> "compiled", done |-> {}, minsize |-> minsize,
                    outside |-> { p \in Tasks : Nlocal[p] < NExport[p] }]
    /\ UNCHANGED <<sharedVars, transportVars, opt, mpi_xlim, mpi_nxsplit, located>>
    /\ UNCHANGED <<mpi_period, mpi_foftask, GroupLen, ChainHead, ChainNext, mpi_nlocal,
                   rankorder, mpi_maxgid, mpi_gidoffset, PartDataGet, NExport, NImport,
                   links, lastpass, Nlocal>>

LinkNext ==
    \/ MPIGetExportNum
    \/ MPIBuildParticleExportList
    \/ \E p \in Tasks : \E ord \in HitOrders(Len(Part[p])) : MPILinkAcross(p, ord)
    \/ MPIUpdateExportList
    \/ MPIGroupExchange
    \/ \E minsize \in 1 .. MaxMinSize : MPICompileGroups(minsize)

LinkSpec == LinkInit /\ [][LinkNext]_vars

\* ------------------------------------------------------------------------
\* Cross-domain linking and migration: properties
\* ------------------------------------------------------------------------
\* the particles of all processes, as (process, index) pairs
AllParticles(ids) == { pi \in Tasks \X (1 .. MaxPart + 1) : pi[2] \in DOMAIN ids[pi[1]] }

\* the group ids in use on any process
IdsInUse(ids) == { ids[pi[1]][pi[2]] : pi \in AllParticles(ids) } \ {0}

\* number of distinct representatives: every group id in use stands for one
\* group and every ungrouped particle for itself
Representatives(ids) ==
    Cardinality(IdsInUse(ids))
    + Cardinality({ pi \in AllParticles(ids) : ids[pi[1]][pi[2]] = 0 })

\* the group ids MPIAdjustLocalGroupIDs left on process p before linking
InitialPfof(p) ==
    AdjustedPfof(rankorder, mpi_nlocal, p, [i \in DOMAIN Part[p] |-> SeedPfof(Part[p], i)])

\* a merge that creates exactly one new group (one group id comes into use
\* that was not in use) or strictly reduces the number of representatives
CreatesOrReduces(m) ==
    \/ /\ Cardinality(IdsInUse(m.after) \ IdsInUse(m.before)) = 1
       /\ IdsInUse(m.before) \subseteq IdsInUse(m.after)
    \/ Representatives(m.after) < Representatives(m.before)

\* a merge that changes the id of at least one particle and changes ids only
\* from ungrouped to a group id or from a group id to a strictly smaller one
LowersIds(m) ==
    /\ \E pi \in AllParticles(m.before) : m.after[pi[1]][pi[2]] # m.before[pi[1]][pi[2]]
    /\ \A pi \in AllParticles(m.before) :
          \/ m.after[pi[1]][pi[2]] = m.before[pi[1]][pi[2]]
          \/ m.before[pi[1]][pi[2]] = 0 /\ m.after[pi[1]][pi[2]] > 0
          \/ 0 < m.after[pi[1]][pi[2]] /\ m.after[pi[1]][pi[2]] < m.before[pi[1]][pi[2]]

\* one call of MPILinkAcross on process p moves no id of p upwards (ungrouped
\* counts as above every id) and moves an id whenever it reports a link, so a
\* pass that reports links lowers the ids, which are bounded below, and only
\* finitely many passes can report links
PassLowersIds(p) ==
    /\ \A i \in DOMAIN pfof[p] :
          \/ pfof'[p][i] = pfof[p][i]
          \/ pfof[p][i] = 0 /\ pfof'[p][i] > 0
          \/ 0 < pfof'[p][i] /\ pfof'[p][i] < pfof[p][i]
    /\ links'[p] > 0 => pfof'[p] # pfof[p]
    /\ links'[p] = Len(lastpass')

\* process p makes its call of MPILinkAcross in this step
LinkAcrossStep(p) == p \notin linkstep.done /\ p \in linkstep'.done

\* C2 as stated: the passes reach a pass with a global link count of zero
\* after finitely many passes, and every successful merge either creates
\* exactly one new group or strictly reduces the number of distinct group
\* representatives.
C2_MergeCreatesOrReduces ==
    [][\A p \in Tasks : LinkAcrossStep(p) =>
          /\ PassLowersIds(p)
          /\ \A n \in DOMAIN lastpass' : CreatesOrReduces(lastpass'[n])]_vars

\* C2: the passes reach a pass with a global link count of zero after
\* finitely many passes, because every pass that reports a link lowers the
\* group ids, and every successful merge changes the group id of at least one
\* local particle, either from ungrouped to a group id or from a group id to
\* a strictly smaller group id, and changes no particle in any other way.
C2_LinkingTerminates ==
    [][\A p \in Tasks : LinkAcrossStep(p) =>
          /\ PassLowersIds(p)
          /\ \A n \in DOMAIN lastpass' : LowersIds(lastpass'[n])]_vars

\* the linking has converged after a local group was relabelled to a smaller
\* id and an ungrouped particle got a group id
C2_Witness ==
    /\ linkstep.stage = "converged"
    /\ \E p \in Tasks : \E i \in DOMAIN pfof[p] :
          InitialPfof(p)[i] > 0 /\ pfof[p][i] < InitialPfof(p)[i]
    /\ \E p \in Tasks : \E i \in DOMAIN pfof[p] :
          InitialPfof(p)[i] = 0 /\ pfof[p][i] > 0

\* every two particles of the dataset are within the linking length
MutuallyLinked ==
    \A p, q \in Tasks : \A i \in DOMAIN Part[p] : \A j \in DOMAIN Part[q] :
        Near(Part[p][i], Part[q][j])

\* the local group ids in use before the first pass
InitialIds == UNION { { InitialPfof(p)[i] : i \in DOMAIN Part[p] } : p \in Tasks } \ {0}

\* the process that holds the particle with the largest PID
LargestPIDTask ==
    CHOOSE p \in Tasks : \E i \in DOMAIN Part[p] :
        \A q \in Tasks : \A j \in DOMAIN Part[q] : Part[q][j].PID <= Part[p][i].PID

\* the id a mutually linked dataset ends with: the smallest local group id
\* if a process has a local group, otherwise the first id of the block of
\* the process that holds the largest PID
MergedId ==
    IF InitialIds # {}
    THEN CHOOSE g \in InitialIds : \A h \in InitialIds : g <= h
    ELSE mpi_maxgid[LargestPIDTask] + RankedBefore(rankorder, mpi_ngroups, LargestPIDTask)

\* C3: with two processes and particles that are mutually within the linking
\* length, every pass that reports a link lowers the group ids, so the passes
\* end with a global link count of zero, and when they have ended every
\* particle carries the same group id, which is fixed by the dataset: the
\* order in which the processes make their passes and the order in which
\* the hits of an imported record are taken do not change it.
C3_StraddlingGroupOneId ==
    [][(NProcs = 2 /\ MutuallyLinked) =>
          /\ \A p \in Tasks : LinkAcrossStep(p) => PassLowersIds(p)
          /\ linkstep'.stage = "converged" =>
                /\ \A p \in Tasks : links'[p] = 0
                /\ \A p \in Tasks : \A i \in DOMAIN pfof'[p] :
                      pfof'[p][i] = MergedId /\ pfof'[p][i] > 0]_vars

\* two processes have converged on one id after both had a local group of
\* their own
C3_Witness ==
    /\ NProcs = 2 /\ MutuallyLinked
    /\ linkstep.stage = "converged"
    /\ \A p \in Tasks : \E i \in DOMAIN Part[p] : InitialPfof(p)[i] > 0
    /\ \E p \in Tasks : \E i \in DOMAIN Part[p] : pfof[p][i] # InitialPfof(p)[i]

\* particle A alone on process 0 and particle B alone on process 1, within
\* the linking length of each other
LonePair ==
    /\ NProcs = 2
    /\ Len(Part[0]) = 1 /\ Len(Part[1]) = 1
    /\ Near(Part[0][1], Part[1][1])

\* C4 as stated: with particle A alone on process 0 and particle B alone on
\* process 1, both ungrouped and within the linking length of each other,
\* after convergence both carry the same nonzero group id and the length
\* recorded for that group (by either of the two processes) is 2.
C4_PairHasLengthTwo ==
    (LonePair /\ linkstep.stage = "converged") =>
        /\ pfof[0][1] = pfof[1][1] /\ pfof[0][1] > 0
        /\ GroupLen[0][1] = 2 \/ GroupLen[1][1] = 2

\* the pair has converged on one nonzero id and both processes record the
\* length 1 for it
C4_Witness ==
    /\ LonePair /\ linkstep.stage = "converged"
    /\ pfof[0][1] = pfof[1][1] /\ pfof[0][1] > 0
    /\ GroupLen[0][1] = 1 /\ GroupLen[1][1] = 1

\* the group ids of the particles that are on process p after the migration:
\* the particles it kept and the particles it received
ResidentIds(p) ==
    { pfof[p][i] : i \in { k \in DOMAIN pfof[p] : mpi_foftask[p][k] = p } }
    \cup { FoFGroupDataLocal[p][e].iGroup : e \in DOMAIN FoFGroupDataLocal[p] }

\* C5 as stated: once linking has converged, all particles that carry the
\* same nonzero group id record the same owning process, and after
\* MPIGroupExchange all particles of a group are on a single process.
C5_GroupHasOneOwner ==
    /\ linkstep.stage = "converged" =>
          \A p, q \in Tasks : \A i \in DOMAIN pfof[p] : \A j \in DOMAIN pfof[q] :
              (pfof[p][i] > 0 /\ pfof[p][i] = pfof[q][j])
                 => mpi_foftask[p][i] = mpi_foftask[q][j]
    /\ linkstep.stage = "exchanged" =>
          \A p, q \in Tasks :
              p # q => (ResidentIds(p) \cap ResidentIds(q)) \subseteq {0}

\* after the migration the particles of one group id are on two processes
C5_Witness ==
    /\ linkstep.stage = "exchanged"
    /\ \E p, q \in Tasks : p # q /\ (ResidentIds(p) \cap ResidentIds(q)) \ {0} # {}

\* the PIDs of the particles process p exports to process q
ExportedPIDs(p, q) == { Part[p][pr[1]].PID : pr \in { e \in ExportPairs(p) : e[2] = q } }

\* C6: after the all-gather of the export planner NExport of every process is
\* the sum of its row of the send-count matrix, which holds its own counts,
\* NImport is the sum of its column, the exports of all processes add up to
\* the imports of all processes, and once the records have been exchanged
\* every process holds each record addressed to it exactly once.
C6_ExportCountsBalance ==
    linkstep.stage \in {"counted", "loop", "converged"} =>
        /\ \A p \in Tasks : \A j \in Tasks :
              mpi_nsend[j + p * NProcs] = Cardinality(ExportedPIDs(p, j))
        /\ \A p \in Tasks :
              NExport[p] = SumFn([j \in Tasks |-> mpi_nsend[j + p * NProcs]], NProcs)
        /\ \A p \in Tasks :
              NImport[p] = SumFn([j \in Tasks |-> mpi_nsend[p + j * NProcs]], NProcs)
        /\ SumFn(NExport, NProcs) = SumFn(NImport, NProcs)
        /\ linkstep.stage # "counted" =>
              \A q \in Tasks :
                 /\ Len(FoFDataIn[q]) = NExport[q]
                 /\ Len(PartDataGet[q]) = NImport[q]
                 /\ Len(FoFDataGet[q]) = NImport[q]
                 /\ \A p \in Tasks : \A g \in ExportedPIDs(p, q) :
                       Cardinality({ e \in DOMAIN PartDataGet[q] :
                                       PartDataGet[q][e].PID = g }) = 1

\* the records have been exchanged under a send-count matrix that is not
\* symmetric, and a process both exports and imports
C6_Witness ==
    /\ linkstep.stage = "loop"
    /\ \E p, q \in Tasks : mpi_nsend[q + p * NProcs] # mpi_nsend[p + q * NProcs]
    /\ \E p \in Tasks : NExport[p] > 0 /\ NImport[p] > 0 /\ NExport[p] # NImport[p]

\* C9: MPIGroupExchange sets the local particle count of every process to
\* the number of particles it keeps plus the number it imports, which is
\* nbodies - nexport + nimport, and the counts of all processes add up to
\* the same number after the migration as before.
C9_LocalCountConserved ==
    linkstep.stage = "exchanged" =>
        /\ \A p \in Tasks :
              Nlocal[p] = Cardinality({ i \in DOMAIN mpi_foftask[p] : mpi_foftask[p][i] = p })
                          + Len(FoFGroupDataLocal[p])
        /\ \A p \in Tasks :
              Nlocal[p] = mpi_nlocal[p]
                          - Cardinality({ i \in DOMAIN mpi_foftask[p] : mpi_foftask[p][i] # p })
                          + NImport[p]
        /\ SumFn(Nlocal, NProcs) = SumFn(mpi_nlocal, NProcs)

\* a process has sent particles away and another has received them
C9_Witness ==
    /\ linkstep.stage = "exchanged"
    /\ \E p \in Tasks : Nlocal[p] < mpi_nlocal[p]
    /\ \E p \in Tasks : Nlocal[p] > mpi_nlocal[p] /\ Len(FoFGroupDataLocal[p]) > 0

\* number of particles of process p that enter the compaction with group id g
RunLength(p, g) ==
    Cardinality({ i \in 1 .. Nlocal[p] : CompileInput(p)[i].ID = 0 - g })

\* C10 as stated: in MPICompileGroups the run of k particles that share one
\* nonzero group id after the compaction sort is reset to 0 if and only if
\* k < minSize; a run with k >= minSize, k == minSize included, keeps the
\* group id on every one of its particles.
C10_SmallRunsReset ==
    [][(linkstep.stage = "exchanged" /\ linkstep'.stage = "compiled") =>
          \A p \in Tasks : \A g \in 1 .. (2 * MaxPart + 2) :
              RunLength(p, g) > 0 =>
                 LET kept == Cardinality({ i \in DOMAIN pfof'[p] : pfof'[p][i] = g })
                 IN  /\ RunLength(p, g) < linkstep'.minsize => kept = 0
                     /\ RunLength(p, g) >= linkstep'.minsize => kept = RunLength(p, g)]_vars

\* after the compaction a process holds a group id on fewer particles than
\* the minimum size of that call
C10_Witness ==
    /\ linkstep.stage = "compiled"
    /\ \E p \in Tasks : \E i \in DOMAIN pfof[p] :
          /\ pfof[p][i] > 0
          /\ Cardinality({ j \in DOMAIN pfof[p] : pfof[p][j] = pfof[p][i] }) < linkstep.minsize

\* ------------------------------------------------------------------------
\* Mesh rebalance: MPIRepartitionDomainDecompositionWithMesh
\* ------------------------------------------------------------------------
\* In this specification opt.cellnodenumparts holds the vector of every
\* process, opt.mpimeshimbalancelimit is in tenths, and located is the
\* position of the run: "counted" after the counting pass, then "balanced"
\* (no re-cut), "repartitioned" or "aborted", with the value returned.

\* the vector MPI_Allreduce leaves on every process: the sum over the processes
CellTotals(o, np) ==
    [c \in 0 .. (o.numcells - 1) |->
        SumFn([q \in 0 .. (np - 1) |-> o.cellnodenumparts[q][c]], np)]

\* particles in the cells a cell-to-process assignment gives to process p
TaskLoad(ids, totals, p) ==
    SumFn([c \in DOMAIN totals |-> IF ids[c] = p THEN totals[c] ELSE 0],
          Cardinality(DOMAIN totals))

\* the test for a re-cut, were it passed by an imbalance equal to the limit
ImbalanceAtLeastLimit(o, totals, np) ==
    LET load == [p \in 0 .. (np - 1) |-> TaskLoad(o.cellnodeids, totals, p)]
        sum == SumFn(load, np)
    IN  sum > 0 /\ \E p, q \in DOMAIN load :
                      (load[p] - load[q]) * np * 10 >= o.mpimeshimbalancelimit * sum

\* MPILoadBalanceWithMesh > opt.mpimeshimbalancelimit: (max - min) / ave over
\* the processes; with no particle at all the quotient is 0/0 and the
\* comparison is false
ImbalanceTooLarge(o, totals, np) ==
    LET load == [p \in 0 .. (np - 1) |-> TaskLoad(o.cellnodeids, totals, p)]
        maxval == CHOOSE a \in { load[p] : p \in DOMAIN load } :
                     \A p \in DOMAIN load : load[p] <= a
        minval == CHOOSE a \in { load[p] : p \in DOMAIN load } :
                     \A p \in DOMAIN load : a <= load[p]
        sum == SumFn(load, np)
    IN  sum > 0 /\ (maxval - minval) * np * 10 > o.mpimeshimbalancelimit * sum

RECURSIVE Recut(_, _, _, _, _)
\* the walk along the Z-ordered cells from cell i on: the cell goes to the
\* current process, and the walk moves to the next process once the
\* current one holds more than the average
Recut(o, totals, np, i, w) ==
    IF i = o.numcells THEN w
    ELSE LET index == o.cellnodeorder[i]
             numparts == w.numparts + totals[index]
             ids == [w.ids EXCEPT ![index] = w.itask]
         IN  IF numparts * np > SumFn(totals, o.numcells) /\ w.itask < np - 1
             THEN Recut(o, totals, np, i + 1,
                        [itask |-> w.itask + 1, numparts |-> 0, ids |-> ids,
                         mpinumparts |-> [w.mpinumparts EXCEPT ![w.itask] = numparts]])
             ELSE Recut(o, totals, np, i + 1,
                        [w EXCEPT !.numparts = numparts, !.ids = ids])

\* cellnodeids and mpinumparts after the walk and the assignment to
\* mpinumparts[NProcs-1] that follows it
Repartitioned(o, totals, np) ==
    LET w == Recut(o, totals, np, 0,
                   [itask |-> 0, numparts |-> 0, ids |-> o.cellnodeids,
                    mpinumparts |-> [p \in 0 .. (np - 1) |-> 0]])
    IN  [ids |-> w.ids,
         mpinumparts |-> [w.mpinumparts EXCEPT ![np - 1] = w.numparts]]

\* the test of process 0 over mpinumparts misses the empty process
HasEmptyTaskLastOnly(mpinumparts, np) == mpinumparts[np - 1] = 0

\* the test of process 0 over mpinumparts that ends in MPI_Abort
HasEmptyTask(mpinumparts, np) == \E p \in 0 .. (np - 1) : mpinumparts[p] = 0

\* the value returned after a re-cut, were it unconditional
RecountAlways(o) == TRUE

\* the value returned after a re-cut
RecountNeeded(o) == o.iBaryonSearch > 0

\* the 2^3 mesh after MPIInitialDomainDecompositionWithMesh, for every
\* process count of the rebalance runs
BalanceMesh ==
    [np \in BalanceProcs |->
        MeshDecomposition(
           [impiusemesh |-> TRUE, numcellsperdim |-> 2, minnumcellperdim |-> 1,
            numcells |-> 0, cellnodeids |-> <<>>, cellnodeorder |-> <<>>,
            cellnodenumparts |-> <<>>, iBaryonSearch |-> 0,
            mpimeshimbalancelimit |-> 0], np)]

\* state after the counting pass of MPINumInDomain under the mesh: process
\* c % NProcs has counted the particles of cell c
RebalanceInit ==
    /\ NProcs \in BalanceProcs
    /\ \E ib \in 0 .. 1 : \E lim \in ImbalanceLimits :
       \E count \in [0 .. 7 -> 0 .. MaxCellParts] :
          opt = [BalanceMesh[NProcs] EXCEPT
                    !.iBaryonSearch = ib,
                    !.mpimeshimbalancelimit = lim,
                    !.cellnodenumparts =
                       [q \in Tasks |-> [c \in 0 .. 7 |-> IF c % NProcs = q THEN count[c] ELSE 0]]]
    /\ mpi_xlim = [axis \in 0 .. 2 |-> [side \in 0 .. 1 |-> IF side = 0 THEN 0 ELSE 4]]
    /\ mpi_nxsplit = <<>>
    /\ mpi_domain = <<>>
    /\ located = [step |-> "counted", returned |-> FALSE]
    /\ Nlocal = [p \in Tasks |-> TaskLoad(opt.cellnodeids, CellTotals(opt, NProcs), p)]
    /\ ExchangeIdle
    /\ TransportIdle
    /\ mpi_period = 0 /\ Part = <<>> /\ pfof = <<>> /\ mpi_foftask = <<>> /\ GroupLen = <<>>
    /\ ChainHead = <<>> /\ ChainNext = <<>> /\ mpi_nlocal = <<>> /\ mpi_ngroups = <<>>
    /\ rankorder = <<>> /\ mpi_maxgid = <<>> /\ mpi_gidoffset = <<>>
    /\ PartDataGet = <<>> /\ NExport = <<>> /\ NImport = <<>> /\ links = <<>>
    /\ linkstep = <<>> /\ lastpass = <<>> /\ FoFGroupDataLocal = <<>>

\* MPIRepartitionDomainDecompositionWithMesh on every process
MPIRepartitionDomainDecompositionWithMesh ==
    /\ located.step = "counted"
    /\ LET totals == CellTotals(opt, NProcs)
           cut == Repartitioned(opt, totals, NProcs)
       IN  IF ~ImbalanceTooLarge(opt, totals, NProcs)
           THEN /\ opt' = [opt EXCEPT !.cellnodenumparts = [q \in Tasks |-> totals]]
                /\ located' = [step |-> "balanced", returned |-> FALSE]
                /\ UNCHANGED Nlocal
           ELSE IF HasEmptyTask(cut.mpinumparts, NProcs)
           THEN /\ opt' = [opt EXCEPT !.cellnodenumparts = [q \in Tasks |-> totals],
                                      !.cellnodeids = cut.ids]
                /\ located' = [step |-> "aborted", returned |-> FALSE]
                /\ UNCHANGED Nlocal
           ELSE /\ opt' = [opt EXCEPT
                             !.cellnodenumparts =
                                 [q \in Tasks |-> [c \in DOMAIN totals |-> 0]],
                             !.cellnodeids = cut.ids]
                /\ located' = [step |-> "repartitioned", returned |-> RecountNeeded(opt)]
                /\ Nlocal' = cut.mpinumparts
    /\ UNCHANGED <<sharedVars, transportVars, mpi_xlim, mpi_nxsplit, mpi_domain>>
    /\ UNCHANGED <<mpi_period, Part, pfof, mpi_foftask, GroupLen, ChainHead, ChainNext,
                   mpi_nlocal, mpi_ngroups, rankorder, mpi_maxgid, mpi_gidoffset,
                   PartDataGet, NExport, NImport, links, linkstep, lastpass,
                   FoFGroupDataLocal>>

RebalanceNext == MPIRepartitionDomainDecompositionWithMesh

RebalanceSpec == RebalanceInit /\ [][RebalanceNext]_vars

\* C11: when the rebalance re-cuts the cell assignment and some process is
\* left with no particle in the cells the new assignment gives it, the call
\* ends in MPI_Abort and does not return with that partition.
C11_EmptyProcessAborts ==
    [][(located.step = "counted" /\ located'.step \in {"repartitioned", "aborted"}) =>
          ((\E p \in Tasks :
                TaskLoad(opt'.cellnodeids, CellTotals(opt, NProcs), p) = 0)
             => located'.step = "aborted")]_vars

\* the job was aborted after a re-cut that left the last process without a
\* cell while the processes before it hold particles
C11_Witness ==
    /\ located.step = "aborted"
    /\ \A c \in DOMAIN opt.cellnodeids : opt.cellnodeids[c] < NProcs - 1
    /\ TaskLoad(opt.cellnodeids, opt.cellnodenumparts[0], 0) > 0

\* C14 as stated: the rebalance returns true exactly when it changed the
\* cell-to-process assignment and false exactly when it left it unchanged.
C14_ReturnsChanged ==
    [][(located.step = "counted" /\ located'.step \in {"balanced", "repartitioned"}) =>
          (located'.returned <=> opt'.cellnodeids # opt.cellnodeids)]_vars

\* C14: the rebalance returns true exactly when the imbalance was above the
\* limit, so that the assignment was re-cut, and the baryon search is
\* active; it returns false when it left the assignment alone and also when
\* it re-cut it, changed or not, with the baryon search off.
C14_ReturnsRecountNeeded ==
    [][(located.step = "counted" /\ located'.step \in {"balanced", "repartitioned"}) =>
          (located'.returned <=>
               /\ ImbalanceTooLarge(opt, CellTotals(opt, NProcs), NProcs)
               /\ opt.iBaryonSearch > 0)]_vars

\* the rebalance has changed the assignment and returned false
C14_Witness ==
    /\ located.step = "repartitioned"
    /\ ~located.returned
    /\ opt.cellnodeids # BalanceMesh[NProcs].cellnodeids

\* C12: MPICompileGroups, run while some process holds no particle at
\* all, raises the zero-population failure: it never completes as an
\* ordinary call that leaves each process with its group count.
C12_ZeroPopulationRaised ==
    ~(linkstep.stage = "compiled" /\ \E p \in Tasks : Nlocal[p] = 0)

\* MPICompileGroups has returned on every process although one of them
\* holds no particle, and that process reports zero groups
C12_Witness ==
    /\ linkstep.stage = "compiled"
    /\ \E p \in Tasks : Nlocal[p] = 0 /\ Part[p] = <<>> /\ mpi_ngroups[p] = 0

\* C13: with more than one process, MPIGetParticlesProcessor never returns
\* a process for a position that lies in no process's domain: the query for
\* such a position ends in MPI_Abort.
C13_GapAborts ==
    (located.step = "located"
       /\ Owners(located.pos[1], located.pos[2], located.pos[3]) = {})
    => located.owner = -1

\* an owner query under the mesh decomposition for a point above the
\* volume in y has returned a process
C13_Witness ==
    /\ located.step = "located"
    /\ opt.impiusemesh
    /\ located.pos[2] > mpi_xlim[1][1]
    /\ located.owner \in Tasks

\* Under the slab decomposition the query for a point of no slab aborts.
SlabGapAborts ==
    (located.step = "located" /\ ~opt.impiusemesh
       /\ Owners(located.pos[1], located.pos[2], located.pos[3]) = {})
    => located.owner = -1

\* the decomposition alone, without owner queries
MeshNext == MPIInitialDomainDecomposition

MeshSpec == DecompInit /\ [][MeshNext]_vars

\* Z-order ranks of the cells the mesh decomposition gives to process p
RanksOf(p) ==
    { i \in 0 .. (opt.numcells - 1) : opt.cellnodeids[opt.cellnodeorder[i]] = p }

\* C15: after the mesh decomposition of at least as many cells as there
\* are processes (64 cells on 8 processes among them), every process owns at
\* least one cell and the cells of a process are consecutive in Z-order rank
\* (every rank of a process but its highest is followed by a rank of it).
C15_EveryProcessOneRun ==
    (opt.impiusemesh /\ located.step = "decomposed" /\ opt.numcells >= NProcs) =>
       \A p \in Tasks :
          /\ RanksOf(p) # {}
          /\ \A i \in RanksOf(p) :
                (i + 1) \in RanksOf(p) \/ \A k \in RanksOf(p) : k <= i

\* the decomposition of the 4^3 mesh over 8 processes is done
C15_Witness ==
    /\ opt.impiusemesh
    /\ located.step = "decomposed"
    /\ opt.numcellsperdim = 4
    /\ NProcs = 8
    /\ \A p \in Tasks : Cardinality(RanksOf(p)) = 8

\* ------------------------------------------------------------------------
\* Export planner under the mesh decomposition
\* ------------------------------------------------------------------------
\* One process holds one particle of a mesh of MaxCellsPerDim + 1 cells per
\* dimension, two ticks per cell; the search radius is rdist = 1 tick.
\* opt.newcellnodeids is <<>> when the vector has size zero.

\* position of a particle of the mesh runs
GetPosition(part) ==
    [axis \in 0 .. 2 |-> IF axis = 0 THEN part.x ELSE IF axis = 1 THEN part.y ELSE part.z]

\* the search box of a particle of the mesh runs
MeshSearchBox(part) ==
    [axis \in 0 .. 2 |->
        [side \in 0 .. 1 |->
            IF side = 0 THEN GetPosition(part)[axis] - rdist
            ELSE GetPosition(part)[axis] + rdist]]

\* a cell coordinate of the search brought back into the mesh
WrappedCoord(n, i) == IF i < 0 THEN n + i ELSE IF i >= n THEN i - n ELSE i

\* the cell indices the triple loop of the search visits, in its order
CellsInSearch(o, xlim, xsearch) ==
    LET ixstart == CellCoord(o, xlim, 0, xsearch[0][0])
        iystart == CellCoord(o, xlim, 1, xsearch[1][0])
        izstart == CellCoord(o, xlim, 2, xsearch[2][0])
        nx == CellCoord(o, xlim, 0, xsearch[0][1]) - ixstart + 1
        ny == CellCoord(o, xlim, 1, xsearch[1][1]) - iystart + 1
        nz == CellCoord(o, xlim, 2, xsearch[2][1]) - izstart + 1
        n == o.numcellsperdim
    IN  [k \in 1 .. (nx * ny * nz) |->
            WrappedCoord(n, izstart + ((k - 1) % nz))
            + WrappedCoord(n, iystart + (((k - 1) \div nz) % ny)) * n
            + WrappedCoord(n, ixstart + ((k - 1) \div (nz * ny))) * n * n]

\* what one cell adds to the list, were the local process not left out
CellNodeIDsWithLocal(o, index, task) ==
    <<o.cellnodeids[index]>>
    \o (IF o.newcellnodeids = <<>> THEN <<>> ELSE o.newcellnodeids[index])

\* what one cell adds to cellnodeidlist on process task
CellNodeIDs(o, index, task) ==
    (IF o.cellnodeids[index] # task THEN <<o.cellnodeids[index]>> ELSE <<>>)
    \o (IF o.newcellnodeids = <<>> THEN <<>>
        ELSE SelectSeq(o.newcellnodeids[index], LAMBDA c : c # task))

RECURSIVE NodeIDsOfCells(_, _, _, _)
\* the list for the first k cells of the search
NodeIDsOfCells(o, cells, task, k) ==
    IF k = 0 THEN <<>>
    ELSE NodeIDsOfCells(o, cells, task, k - 1) \o CellNodeIDs(o, cells[k], task)

MPIGetCellNodeIDListInSearchUsingMesh(o, xlim, xsearch, task) ==
    LET cells == CellsInSearch(o, xlim, xsearch)
    IN  NodeIDsOfCells(o, cells, task, Len(cells))

\* the destinations, were sent_mpi_domain not consulted
NotYetSentAll(list) == [k \in DOMAIN list |-> <<k, list[k]>>]

\* the destinations that pass the sent_mpi_domain test: the first occurrence
\* of every process of the list
NotYetSent(list) ==
    SelectSeq([k \in DOMAIN list |-> <<k, list[k]>>],
              LAMBDA e : \A m \in 1 .. (e[1] - 1) : list[m] # e[2])

\* destinations of particle i of process p, in the form <<position, process>>
MeshDestinations(p, i) ==
    NotYetSent(MPIGetCellNodeIDListInSearchUsingMesh(
                  opt, mpi_xlim, MeshSearchBox(Part[p][i]), p))

\* MPISearchForOverlapUsingMesh for particle i of process p
MPISearchForOverlapUsingMesh(p, i) == Len(MeshDestinations(p, i))

RECURSIVE MeshExportRecords(_, _)
\* FoFDataIn of process p before the sort, for its first n particles
MeshExportRecords(p, n) ==
    IF n = 0 THEN <<>>
    ELSE MeshExportRecords(p, n - 1)
         \o [k \in DOMAIN MeshDestinations(p, n) |->
                [Index |-> n, Task |-> MeshDestinations(p, n)[k][2],
                 iGroup |-> pfof[p][n], iGroupTask |-> p, iLen |-> GroupLen[p][n]]]

RECURSIVE MeshSortedExport(_, _)
\* the buffer after the sort by destination, for the destinations below j
MeshSortedExport(recs, j) ==
    IF j = 0 THEN <<>>
    ELSE MeshSortedExport(recs, j - 1) \o SelectSeq(recs, LAMBDA r : r.Task = j - 1)

\* nsend_local of process p under the mesh
mesh_nsend_local(p) ==
    [j \in Tasks |->
        Len(SelectSeq(MeshExportRecords(p, Len(Part[p])), LAMBDA r : r.Task = j))]

\* the side tables of the runs: none, or one cell with one or two additional
\* processes, repeated or not
NewCellNodeIDs(np, ncells) ==
    {<<>>} \cup
    { [c \in 0 .. (ncells - 1) |-> IF c = c0 THEN lst ELSE <<>>] :
         c0 \in 0 .. (ncells - 1),
         lst \in { <<a>> : a \in 0 .. (np - 1) }
                 \cup { <<a, a>> : a \in 0 .. (np - 1) } }

\* the mesh of the planner runs, for every process count
PlannerMesh ==
    [np \in BalanceProcs |->
        MeshDecomposition(
           [impiusemesh |-> TRUE, numcellsperdim |-> MaxCellsPerDim + 1,
            minnumcellperdim |-> 1, numcells |-> 0, cellnodeids |-> <<>>,
            cellnodeorder |-> <<>>, cellnodenumparts |-> <<>>,
            newcellnodeids |-> <<>>], np)]

\* what the runs under the mesh share before the export planner runs: the
\* volume, and empty buffers and group data for the particles in Part
MeshExportStart ==
    /\ mpi_xlim = [axis \in 0 .. 2 |->
                     [side \in 0 .. 1 |-> IF side = 0 THEN 0 ELSE 2 * opt.numcellsperdim]]
    /\ mpi_nxsplit = <<>>
    /\ mpi_domain = <<>>
    /\ mpi_period = 0
    /\ pfof = [p \in Tasks |-> [i \in DOMAIN Part[p] |-> 0]]
    /\ GroupLen = [p \in Tasks |-> [i \in DOMAIN Part[p] |-> 0]]
    /\ ChainHead = <<>> /\ ChainNext = <<>> /\ mpi_nlocal = <<>> /\ mpi_ngroups = <<>>
    /\ rankorder = <<>> /\ mpi_maxgid = <<>> /\ mpi_gidoffset = <<>>
    /\ mpi_nsend = [k \in 0 .. (NProcs * NProcs - 1) |-> 0]
    /\ FoFDataIn = [p \in Tasks |-> <<>>]
    /\ FoFDataGet = [p \in Tasks |-> <<>>]
    /\ PartDataGet = [p \in Tasks |-> <<>>]
    /\ NExport = [p \in Tasks |-> 0]
    /\ NImport = [p \in Tasks |-> 0]
    /\ links = <<>> /\ lastpass = <<>> /\ FoFGroupDataLocal = <<>> /\ Nlocal = <<>>
    /\ linkstep = [stage |-> "start", done |-> {}]
    /\ TransportIdle

\* state before the export planner runs under the mesh
MeshExportInit ==
    /\ NProcs \in BalanceProcs
    /\ \E table \in NewCellNodeIDs(NProcs, PlannerMesh[NProcs].numcells) :
          opt = [PlannerMesh[NProcs] EXCEPT !.newcellnodeids = table]
    /\ located = <<>>
    /\ \E holder \in Tasks :
       \E x \in 0 .. (2 * opt.numcellsperdim - 1), y \in {0, 3}, z \in {0, 3} :
          Part = [p \in Tasks |->
                     IF p = holder THEN <<[x |-> x, y |-> y, z |-> z, PID |-> 1]>> ELSE <<>>]
    /\ mpi_foftask = [p \in Tasks |-> [i \in DOMAIN Part[p] |-> p]]
    /\ MeshExportStart

\* MPIGetExportNumUsingMesh on every process, meeting in the all-gather
MPIGetExportNumUsingMesh ==
    /\ linkstep.stage = "start"
    /\ NExport' = [p \in Tasks |->
                     SumFn([i \in 0 .. (Len(Part[p]) - 1) |->
                               MPISearchForOverlapUsingMesh(p, i + 1)], Len(Part[p]))]
    /\ mpi_nsend' = Allgather([p \in Tasks |-> mesh_nsend_local(p)])
    /\ NImport' = [p \in Tasks |-> ColumnSum(mpi_nsend', p)]
    /\ linkstep' = [linkstep EXCEPT !.stage = "counted"]
    /\ UNCHANGED <<NProcs, FoFDataIn, FoFDataGet, transportVars, decompVars>>
    /\ UNCHANGED <<mpi_period, Part, pfof, mpi_foftask, GroupLen, ChainHead, ChainNext,
                   mpi_nlocal, mpi_ngroups, rankorder, mpi_maxgid, mpi_gidoffset,
                   PartDataGet, links, lastpass, FoFGroupDataLocal, Nlocal>>

\* MPIBuildParticleExportListUsingMesh on every process, with its exchange
MPIBuildParticleExportListUsingMesh ==
    /\ linkstep.stage = "counted"
    /\ FoFDataIn' = [p \in Tasks |->
                       MeshSortedExport(MeshExportRecords(p, Len(Part[p])), NProcs)]
    /\ mpi_nsend' = Allgather([p \in Tasks |-> mesh_nsend_local(p)])
    /\ NImport' = [p \in Tasks |-> ColumnSum(mpi_nsend', p)]
    /\ FoFDataGet' = Exchanged(mpi_nsend', FoFDataIn')
    /\ PartDataGet' =
          Exchanged(mpi_nsend',
                    [p \in Tasks |->
                        [e \in DOMAIN FoFDataIn'[p] |-> Part[p][FoFDataIn'[p][e].Index]]])
    /\ linkstep' = [linkstep EXCEPT !.stage = "planned"]
    /\ UNCHANGED <<NProcs, transportVars, decompVars>>
    /\ UNCHANGED <<mpi_period, Part, pfof, mpi_foftask, GroupLen, ChainHead, ChainNext,
                   mpi_nlocal, mpi_ngroups, rankorder, mpi_maxgid, mpi_gidoffset,
                   NExport, links, lastpass, FoFGroupDataLocal, Nlocal>>

MeshExportNext ==
    \/ MPIGetExportNumUsingMesh
    \/ MPIBuildParticleExportListUsingMesh

MeshExportSpec == MeshExportInit /\ [][MeshExportNext]_vars

\* C16: under the mesh decomposition the export buffer a planner call
\* builds holds, for every particle and destination, at most one record,
\* however many cells of the search or entries of the side table name that
\* destination, and no record whose destination is the exporting process;
\* the count of the first pass agrees with it.
C16_ExportedOncePerDestination ==
    linkstep.stage = "planned" =>
       \A p \in Tasks :
          /\ \A a \in DOMAIN FoFDataIn[p], b \in DOMAIN FoFDataIn[p] :
                (FoFDataIn[p][a].Index = FoFDataIn[p][b].Index
                   /\ FoFDataIn[p][a].Task = FoFDataIn[p][b].Task) => a = b
          /\ \A a \in DOMAIN FoFDataIn[p] : FoFDataIn[p][a].Task # p
          /\ Len(FoFDataIn[p]) = NExport[p]

\* a particle whose search meets several cells of another process, one of
\* them with that process and the exporting process in the side table, has
\* been planned with one record for that destination
C16_Witness ==
    /\ linkstep.stage = "planned"
    /\ opt.newcellnodeids # <<>>
    /\ \E p \in Tasks, q \in Tasks :
          /\ p # q
          /\ Len(Part[p]) = 1
          /\ Cardinality({ k \in DOMAIN CellsInSearch(opt, mpi_xlim, MeshSearchBox(Part[p][1])) :
                 opt.cellnodeids[CellsInSearch(opt, mpi_xlim, MeshSearchBox(Part[p][1]))[k]] = q }) > 1
          /\ \E k \in DOMAIN CellsInSearch(opt, mpi_xlim, MeshSearchBox(Part[p][1])) :
                opt.newcellnodeids[CellsInSearch(opt, mpi_xlim, MeshSearchBox(Part[p][1]))[k]]
                   \in {<<q>>, <<q, q>>, <<p>>, <<p, p>>}
          /\ Len(SelectSeq(FoFDataIn[p], LAMBDA r : r.Task = q)) = 1

\* ------------------------------------------------------------------------
\* Periodic overlap search under the slab decomposition
\* ------------------------------------------------------------------------
\* The volume is [0, mpi_period]^3 with mpi_period = 4 * NProcs ticks, cut
\* into slabs; the search radius is two ticks, so that a particle one tick
\* from a face reaches across it. located holds the searching process, the
\* search box, and the two counts once they are computed.

\* ireflec: the axes along which the search box leaves the period
ReflectedAxes(xsearch) ==
    { k \in 0 .. 2 : xsearch[k][0] < 0 \/ xsearch[k][1] > mpi_period }

\* one entry of xsearchp: the box moved by one period along the axes of S
xsearchp(xsearch, S) ==
    [k \in 0 .. 2 |->
        [side \in 0 .. 1 |->
            IF k \notin S THEN xsearch[k][side]
            ELSE IF xsearch[k][0] < 0 THEN xsearch[k][side] + mpi_period
            ELSE IF xsearch[k][1] > mpi_period THEN xsearch[k][side] - mpi_period
            ELSE xsearch[k][side]]]

\* the 1, 3 or 7 reflections the search builds: one for every non-empty
\* choice among the reflected axes
Reflections(xsearch) == (SUBSET ReflectedAxes(xsearch)) \ {{}}

\* numoverlap of MPISearchForOverlap on process task
MPISearchForOverlap(task, xsearch) ==
    Cardinality({ j \in Tasks \ {task} : BoxesMeet(xsearch, mpi_domain[j]) })
    + (IF mpi_period # 0
       THEN Cardinality({ jS \in (Tasks \ {task}) \X Reflections(xsearch) :
                            BoxesMeet(xsearchp(xsearch, jS[2]), mpi_domain[jS[1]]) })
       ELSE 0)

\* nexport of MPIGetExportNum on process task for one search box
ExportNumOfBox(task, xsearch) ==
    Cardinality({ j \in Tasks \ {task} : MPIInDomain(xsearch, mpi_domain[j]) })

\* the search box of radius 2 * rdist around a point
BoxAround(x, y, z) ==
    [k \in 0 .. 2 |->
        [side \in 0 .. 1 |->
            (IF k = 0 THEN x ELSE IF k = 1 THEN y ELSE z)
            + (IF side = 0 THEN 0 - 2 * rdist ELSE 2 * rdist)]]

\* a periodic slab decomposition and a particle of one of its processes
OverlapInit ==
    /\ NProcs \in 2 .. MaxOverlapProcs
    /\ mpi_period = 4 * NProcs
    /\ mpi_xlim = [axis \in 0 .. 2 |-> [side \in 0 .. 1 |-> IF side = 0 THEN 0 ELSE mpi_period]]
    /\ mpi_nxsplit = SlabSplit(NProcs)
    /\ mpi_domain = [j \in Tasks |-> SlabDomain(mpi_xlim, mpi_nxsplit, j)]
    /\ opt = [impiusemesh |-> FALSE, numcellsperdim |-> 0, minnumcellperdim |-> 1,
              numcells |-> 0, cellnodeids |-> <<>>, cellnodeorder |-> <<>>,
              cellnodenumparts |-> <<>>]
    /\ \E task \in Tasks :
       \E x \in 0 .. mpi_period, y \in 0 .. mpi_period, z \in {1, 2 * NProcs} :
          /\ InSlab(mpi_domain[task], x, y, z)
          /\ located = [step |-> "start", task |-> task, xsearch |-> BoxAround(x, y, z),
                        numoverlap |-> 0, nexport |-> 0]
    /\ ExchangeIdle
    /\ TransportIdle
    /\ Part = <<>> /\ pfof = <<>> /\ mpi_foftask = <<>> /\ GroupLen = <<>>
    /\ ChainHead = <<>> /\ ChainNext = <<>> /\ mpi_nlocal = <<>> /\ mpi_ngroups = <<>>
    /\ rankorder = <<>> /\ mpi_maxgid = <<>> /\ mpi_gidoffset = <<>>
    /\ PartDataGet = <<>> /\ NExport = <<>> /\ NImport = <<>> /\ links = <<>>
    /\ linkstep = <<>> /\ lastpass = <<>> /\ FoFGroupDataLocal = <<>> /\ Nlocal = <<>>

\* MPISearchForOverlap for the box of the particle
SearchForOverlap ==
    /\ located.step = "start"
    /\ located' = [located EXCEPT
                     !.step = "searched",
                     !.numoverlap = MPISearchForOverlap(located.task, located.xsearch)]
    /\ UNCHANGED <<sharedVars, transportVars, opt, mpi_xlim, mpi_nxsplit, mpi_domain, linkVars>>

\* the pass of MPIGetExportNum over the particle
GetExportNumOfBox ==
    /\ located.step \in {"start", "searched"}
    /\ located.nexport = 0
    /\ ExportNumOfBox(located.task, located.xsearch) > 0
    /\ located' = [located EXCEPT
                     !.nexport = ExportNumOfBox(located.task, located.xsearch)]
    /\ UNCHANGED <<sharedVars, transportVars, opt, mpi_xlim, mpi_nxsplit, mpi_domain, linkVars>>

OverlapNext == SearchForOverlap \/ GetExportNumOfBox

OverlapSpec == OverlapInit /\ [][OverlapNext]_vars

\* the processes other than task whose slab the box, or one of its images
\* one period away along any of the axes, meets
Reached(task, xsearch) ==
    { j \in Tasks \ {task} :
         \E shift \in [0 .. 2 -> {0 - mpi_period, 0, mpi_period}] :
            BoxesMeet([k \in 0 .. 2 |-> [side \in 0 .. 1 |-> xsearch[k][side] + shift[k]]],
                      mpi_domain[j]) }

\* C17: under the periodic slab decomposition the overlap count of a search
\* box counts a process exactly when the box or one of its periodic images
\* meets the slab of the process, and counts it once, whether the slab is
\* met directly, through an image, or both.
C17_CountedOncePerDestination ==
    located.step = "searched" =>
       located.numoverlap = Cardinality(Reached(located.task, located.xsearch))

\* a box that leaves the period has been searched, and its overlap count
\* exceeds the number of processes other than the searching one
C17_Witness ==
    /\ located.step = "searched"
    /\ ReflectedAxes(located.xsearch) # {}
    /\ located.numoverlap > NProcs - 1

\* The count of MPIGetExportNum, which goes through MPIInDomain, counts
\* every process the box reaches directly or through an image, once.
ExportNumCountsOnce ==
    located.nexport > 0 =>
       located.nexport = Cardinality(Reached(located.task, located.xsearch))

\* the group ids process p holds
LocalIds(p) == { pfof[p][i] : i \in DOMAIN pfof[p] } \ {0}

\* every id of process p is below every id of process q
IdsBelow(p, q) == \A a \in LocalIds(p), b \in LocalIds(q) : a < b

\* the id block MPIAdjustLocalGroupIDs leaves to process p: as many ids as
\* the process has particles, above the blocks of the processes ranked
\* before it
IdBlock(p) ==
    (RankedBefore(rankorder, mpi_nlocal, p) + 1)
       .. (RankedBefore(rankorder, mpi_nlocal, p) + mpi_nlocal[p])

\* C18 as stated: the processes are ranked by descending particle count, so
\* that the ids of a process with more particles lie below the ids of a
\* process with fewer, and the blocks do not overlap.
C18_MostParticlesLowestBlock ==
    linkstep.stage = "start" =>
       \A p \in Tasks, q \in Tasks :
          /\ mpi_nlocal[p] > mpi_nlocal[q] => IdsBelow(p, q)
          /\ p # q => IdBlock(p) \cap IdBlock(q) = {}

\* C18: after MPIAdjustLocalGroupIDs the processes are ranked by ascending
\* particle count: the ids of a process lie in its block, the blocks of two
\* processes do not overlap, and the block and the ids of a process with
\* fewer particles lie below those of a process with more.
C18_FewestParticlesLowestBlock ==
    linkstep.stage = "start" =>
       \A p \in Tasks, q \in Tasks :
          /\ LocalIds(p) \subseteq IdBlock(p)
          /\ p # q => IdBlock(p) \cap IdBlock(q) = {}
          /\ mpi_nlocal[p] < mpi_nlocal[q] =>
                /\ IdsBelow(p, q)
                /\ \A a \in IdBlock(p), b \in IdBlock(q) : a < b

\* two processes with different particle counts both hold a group, and the
\* one with fewer particles holds the lower ids
C18_Witness ==
    /\ linkstep.stage = "start"
    /\ \E p \in Tasks, q \in Tasks :
          /\ mpi_nlocal[p] < mpi_nlocal[q]
          /\ LocalIds(p) # {} /\ LocalIds(q) # {}
          /\ IdsBelow(p, q)

\* the local state MPILinkAcross starts from on process p
LocalState(p) ==
    [pfof |-> pfof[p], foftask |-> mpi_foftask[p], len |-> GroupLen[p],
     gidoffset |-> mpi_gidoffset[p], get |-> FoFDataGet[p], links |-> 0, log |-> <<>>]

\* the pairs of an imported record and a local particle within its search
\* radius that the pass process p is about to make will meet
PendingHits(p) ==
    IF linkstep.stage = "loop" /\ p \notin linkstep.done
    THEN { ik \in (1 .. NImport[p]) \X (DOMAIN Part[p]) :
             ik[2] \in SearchBallPosTagged(Part[p], PartDataGet[p][ik[1]]) }
    ELSE {}

\* the loop body leaves the local state of process p as it is
HitKeeps(p, i, k) == LinkHit(p, LocalState(p), i, k) = LocalState(p)

\* the loop body gives particle k the next id of process p, length 1 and the
\* process of the imported particle as owner, and changes nothing else
HitCreates(p, i, k) ==
    LET r == LinkHit(p, LocalState(p), i, k)
    IN  /\ r.pfof = [pfof[p] EXCEPT ![k] = mpi_maxgid[p] + mpi_gidoffset[p]]
        /\ r.len = [GroupLen[p] EXCEPT ![k] = 1]
        /\ r.foftask = [mpi_foftask[p] EXCEPT ![k] = FoFDataGet[p][i].iGroupTask]
        /\ r.gidoffset = mpi_gidoffset[p] + 1
        /\ r.get = FoFDataGet[p]
        /\ r.links = 1

\* the loop body gives every particle of the chain of particle k the id and
\* the owner of the imported record and the sum of the two lengths, adds the
\* local length to the record, and changes nothing else
HitRelabels(p, i, k) ==
    LET r == LinkHit(p, LocalState(p), i, k)
        chain == ChainFrom(p, ChainHead[p][k])
        rec == FoFDataGet[p][i]
    IN  /\ \A j \in DOMAIN Part[p] :
              IF j \in chain
              THEN /\ r.pfof[j] = rec.iGroup
                   /\ r.foftask[j] = rec.iGroupTask
                   /\ r.len[j] = rec.iLen + GroupLen[p][k]
              ELSE /\ r.pfof[j] = pfof[p][j]
                   /\ r.foftask[j] = mpi_foftask[p][j]
                   /\ r.len[j] = GroupLen[p][j]
        /\ r.get = [FoFDataGet[p] EXCEPT ![i].iLen = rec.iLen + GroupLen[p][k]]
        /\ r.gidoffset = mpi_gidoffset[p]
        /\ r.links = 1

\* both the imported particle and the head of the local particle are ungrouped
BothUngrouped(p, i, k) ==
    FoFDataGet[p][i].iGroup = 0 /\ pfof[p][ChainHead[p][k]] = 0

\* both the imported particle and the head of the local particle are grouped
BothGrouped(p, i, k) ==
    FoFDataGet[p][i].iGroup > 0 /\ pfof[p][ChainHead[p][k]] > 0

\* C19 as stated: with the imported particle and the local head ungrouped,
\* nothing changes if the local PID is the greater one, and the local
\* particle gets a new id, length 1 and the foreign owner if it is the lower.
C19_LowerPIDCreates ==
    \A p \in Tasks : \A ik \in PendingHits(p) :
       BothUngrouped(p, ik[1], ik[2]) =>
          /\ Part[p][ChainHead[p][ik[2]]].PID > PartDataGet[p][ik[1]].PID
                => HitKeeps(p, ik[1], ik[2])
          /\ Part[p][ChainHead[p][ik[2]]].PID < PartDataGet[p][ik[1]].PID
                => HitCreates(p, ik[1], ik[2])

\* C19: with the imported particle and the local head ungrouped, the local
\* particle gets the id mpi_maxgid + mpi_gidoffset (the offset is then
\* raised by one), length 1 and the foreign process as owner if the local
\* PID is greater than the foreign PID, and nothing changes if it is lower.
C19_GreaterPIDCreates ==
    \A p \in Tasks : \A ik \in PendingHits(p) :
       BothUngrouped(p, ik[1], ik[2]) =>
          /\ Part[p][ChainHead[p][ik[2]]].PID > PartDataGet[p][ik[1]].PID
                => HitCreates(p, ik[1], ik[2])
          /\ Part[p][ChainHead[p][ik[2]]].PID < PartDataGet[p][ik[1]].PID
                => HitKeeps(p, ik[1], ik[2])

\* a pass has created a group for an ungrouped local particle whose PID is
\* greater than the PID of an ungrouped imported particle within its reach
C19_Witness ==
    /\ linkstep.stage = "loop"
    /\ \E n \in DOMAIN lastpass :
          /\ lastpass[n].kind = "create"
          /\ lastpass[n].task \in linkstep.done
          /\ \E k \in DOMAIN Part[lastpass[n].task] :
                /\ lastpass[n].before[lastpass[n].task][k] = 0
                /\ lastpass[n].after[lastpass[n].task][k] > 0
                /\ GroupLen[lastpass[n].task][k] = 1
                /\ \E i \in 1 .. NImport[lastpass[n].task] :
                      /\ Near(Part[lastpass[n].task][k], PartDataGet[lastpass[n].task][i])
                      /\ PartDataGet[lastpass[n].task][i].PID < Part[lastpass[n].task][k].PID
                      /\ mpi_foftask[lastpass[n].task][k]
                            = FoFDataGet[lastpass[n].task][i].iGroupTask

InitialGidOffset(p) == RankedBefore(rankorder, mpi_ngroups, p)

\* number of new group ids process p has allocated in its passes so far
Allocated(p) == mpi_gidoffset[p] - InitialGidOffset(p)

\* the processes that have allocated a new group id
Creators == { p \in Tasks : Allocated(p) > 0 }

RECURSIVE ClusterOf(_)
\* the particles of all processes linked to the set S by chains of near pairs
ClusterOf(S) ==
    LET T == S \cup { pj \in AllParticles(pfof) :
                        \E pi \in S : Near(Part[pi[1]][pi[2]], Part[pj[1]][pj[2]]) }
    IN  IF T = S THEN S ELSE ClusterOf(T)

\* the dataset is one cluster of linked particles, none of which the local
\* FOF seed has grouped
OneUngroupedCluster ==
    /\ InitialIds = {}
    /\ \A pi \in AllParticles(pfof) : ClusterOf({pi}) = AllParticles(pfof)

\* C21 as stated: for a cluster of linked, initially ungrouped particles that
\* spans several processes, the PID tie-break ensures that two different
\* processes never each allocate a new group id for that cluster.
C21_OneCreatorPerCluster ==
    (linkstep.stage \in {"loop", "converged"} /\ OneUngroupedCluster)
        => Cardinality(Creators) <= 1

\* two processes whose particles are within the linking length of each other
\* have both allocated a new id for the one cluster of the dataset
C21_Witness ==
    /\ OneUngroupedCluster
    /\ \E p, q \in Creators :
          /\ p # q
          /\ \E i \in DOMAIN Part[p], j \in DOMAIN Part[q] : Near(Part[p][i], Part[q][j])

\* the new group ids process p has allocated in its passes so far
AllocatedIds(p) ==
    { mpi_maxgid[p] + o : o \in InitialGidOffset(p) .. (mpi_gidoffset[p] - 1) }

\* the id a merge of the pass log gave to the particles it changed
MergedTo(m) ==
    { m.after[pi[1]][pi[2]] :
        pi \in { pj \in AllParticles(m.before) :
                   m.after[pj[1]][pj[2]] # m.before[pj[1]][pj[2]] } }

\* C22 as stated: every group id that LinkAcross allocates for a new group
\* (mpi_maxgid + mpi_gidoffset, with mpi_gidoffset then incremented) is
\* globally reserved: it differs from every group id already in use on any
\* process and from every id allocated by any other process, however many new
\* groups each process creates over all passes.
C22_AllocatedIdsReserved ==
    /\ \A p, q \in Tasks : p # q => AllocatedIds(p) \cap AllocatedIds(q) = {}
    /\ \A n \in DOMAIN lastpass :
          lastpass[n].kind = "create"
             => MergedTo(lastpass[n]) \cap IdsInUse(lastpass[n].before) = {}

\* two processes have allocated the same id, and the later of the two
\* allocated it while a particle of the other process carried it
C22_Witness ==
    /\ \E p, q \in Tasks : p # q /\ AllocatedIds(p) \cap AllocatedIds(q) # {}
    /\ \E n \in DOMAIN lastpass :
          /\ lastpass[n].kind = "create"
          /\ MergedTo(lastpass[n]) \cap IdsInUse(lastpass[n].before) # {}

\* ------------------------------------------------------------------------
\* Cross-domain linking: particles with colliding PIDs
\* ------------------------------------------------------------------------
\* largest number of particles of a dataset in which PIDs may collide
MaxTiePart == 3

RECURSIVE TieLocalParts(_, _, _, _, _)
\* the local array of process p when particle g has PID pids[g] and sits at
\* position xs[g]
TieLocalParts(xs, pids, home, p, g) ==
    IF g = 0 THEN <<>>
    ELSE IF home[g] = p
         THEN Append(TieLocalParts(xs, pids, home, p, g - 1), [x |-> xs[g], PID |-> pids[g]])
         ELSE TieLocalParts(xs, pids, home, p, g - 1)

\* the particle sets with PIDs that need not differ: every process holds a
\* particle
TieParticles(np) ==
    LET owner == [x \in 1 .. np |-> SlabOwner(np, LinkVolume(np), x)]
        sets == { ys \in UNION { [1 .. n -> 1 .. np] : n \in np .. MaxTiePart } :
                    \A p \in 0 .. (np - 1) : \E g \in DOMAIN ys : owner[ys[g]] = p }
    IN  UNION { { [p \in 0 .. (np - 1) |->
                     TieLocalParts(xs, pids, [g \in DOMAIN xs |-> owner[xs[g]]], p, Len(xs))] :
                    pids \in [DOMAIN xs -> DOMAIN xs] } : xs \in sets }

TieInit ==
    /\ NProcs \in ProcCounts
    /\ Part \in TieParticles(NProcs)
    /\ LinkStart

\* the linking and migration run on particles whose PIDs may collide
TieSpec == TieInit /\ [][LinkNext]_vars

\* two particles on different processes, both left ungrouped by the local
\* FOF seed, within the linking length of each other and with equal PIDs
TiedPair(p, i, q, j) ==
    /\ p # q
    /\ InitialPfof(p)[i] = 0 /\ InitialPfof(q)[j] = 0
    /\ Near(Part[p][i], Part[q][j])
    /\ Part[p][i].PID = Part[q][j].PID

\* C23 as stated: PID ties are handled: two initially ungrouped particles on
\* different processes that are within linking distance of each other and
\* have equal PIDs still end, after the linking loop converges, in one common
\* nonzero group.
C23_TiedPairGrouped ==
    linkstep.stage = "converged" =>
        \A p, q \in Tasks : \A i \in DOMAIN Part[p] : \A j \in DOMAIN Part[q] :
            TiedPair(p, i, q, j) => (pfof[p][i] = pfof[q][j] /\ pfof[p][i] > 0)

\* the linking loop has converged and both particles of a pair with equal
\* PIDs are still ungrouped
C23_Witness ==
    /\ linkstep.stage = "converged"
    /\ \E p, q \in Tasks : \E i \in DOMAIN Part[p] : \E j \in DOMAIN Part[q] :
          TiedPair(p, i, q, j) /\ pfof[p][i] = 0 /\ pfof[q][j] = 0

\* ------------------------------------------------------------------------
\* Transport: the pair list
\* ------------------------------------------------------------------------
\* items go from i to j or from j to i
Traffic(i, j) == At(mpi_nsend, i, j) > 0 \/ At(mpi_nsend, j, i) > 0

\* the positions of the pair list that hold i and j, in either order
PositionsOf(i, j) ==
    { k \in DOMAIN commpair : commpair[k] = <<i, j>> \/ commpair[k] = <<j, i>> }

\* C24: MPIGenerateCommPairs returns every unordered pair (i,j), i != j, that
\* has nonzero traffic in at least one direction exactly once and no pair with
\* zero traffic in both directions, in an order that is identical on all
\* processes holding the same send-count matrix (all processes walk the one
\* list the fixed seed gives); each process performs a transfer only for the
\* pairs of which it is a member.
C24_PairsCoverTraffic ==
    /\ \A i, j \in Tasks :
          i # j => Cardinality(PositionsOf(i, j)) = (IF Traffic(i, j) THEN 1 ELSE 0)
    /\ \A k \in DOMAIN commpair :
          commpair[k][1] \in Tasks /\ commpair[k][2] \in Tasks /\ commpair[k][1] # commpair[k][2]
    /\ \A p \in Tasks :
          comm[p].phase = "chunk" =>
             /\ comm[p].pos \in DOMAIN commpair
             /\ comm[p].recvTask # p
             /\ comm[p].pos \in PositionsOf(p, comm[p].recvTask)

\* three processes with traffic between two of the three pairs only, one of
\* them in one direction only; the members of the first pair of the list
\* have made its transfer, and a process that is not a member of it has
\* passed over it and transfers for the second
C24_Witness ==
    /\ NProcs = 3 /\ Len(commpair) = 2
    /\ \E i, j \in Tasks : At(mpi_nsend, i, j) > 0 /\ At(mpi_nsend, j, i) = 0
    /\ \E p \in Tasks :
          /\ comm[p].phase = "chunk" /\ comm[p].pos = 2
          /\ p # commpair[1][1] /\ p # commpair[1][2]
          /\ comm[commpair[1][1]].last.task = commpair[1][2]

\* ------------------------------------------------------------------------
\* Transport: progress of the blocking exchange
\* ------------------------------------------------------------------------
\* MPI completes a pair of matching blocking send-receive calls once both
\* partners have posted them
TransportLiveSpec == TransportSpec /\ WF_vars(TransportNext)

\* C25: when all processes hold the same send-count matrix, the blocking
\* pairwise exchange is deadlock-free: with every process walking the common
\* shuffled pair list and executing only its own pairs with blocking
\* send-receive calls, every process eventually completes all of its pairs,
\* for every matrix and every pair order.
C25_ExchangeCompletes == <>AllDone

\* all processes have left the pair loop after three pairs were exchanged in
\* an order that does not start with the pair of the two lowest ranks
C25_Witness ==
    /\ AllDone
    /\ NProcs = 3 /\ Len(commpair) = 3
    /\ commpair[1] # <<0, 1>>
    /\ \A p \in Tasks : comm[p].last.task # -1

\* ------------------------------------------------------------------------
\* Transport: the two sides of a chunk loop
\* ------------------------------------------------------------------------
RECURSIVE ChunksAfter(_, _, _, _)
\* the chunk-loop locals of a process that sends nsend and receives nrecv
\* items, after n rounds
ChunksAfter(nsend, nrecv, maxchunk, n) ==
    IF n = 0 THEN MPIInitialzeCommChunks(nsend, nrecv, maxchunk)
    ELSE MPIUpdateCommChunks(nsend, nrecv, ChunksAfter(nsend, nrecv, maxchunk, n - 1))

\* C26: for every pair and every maximum chunk size, both partners compute
\* the same number of rounds (at least one), and in each round the number of
\* items one partner sends equals the number of items the other partner
\* expects to receive in that round.
C26_PartnersAgree ==
    \A p \in Tasks :
        comm[p].phase = "chunk" =>
            LET q == comm[p].recvTask
                mine == comm[p].chunks
                theirs == ChunksAfter(At(mpi_nsend, q, p), At(mpi_nsend, p, q),
                                      maxchunksize, comm[p].ichunk)
            IN  /\ mine = ChunksAfter(At(mpi_nsend, p, q), At(mpi_nsend, q, p),
                                      maxchunksize, comm[p].ichunk)
                /\ mine.numsendrecv = theirs.numsendrecv
                /\ mine.numsendrecv >= 1
                /\ comm[p].ichunk < mine.numsendrecv
                /\ mine.cursendchunksize = theirs.currecvchunksize
                /\ mine.currecvchunksize = theirs.cursendchunksize
                /\ mine.cursendchunksize >= 0 /\ mine.currecvchunksize >= 0

\* a process is in a later round of a pair in which it has nothing left to
\* send and still receives
C26_Witness ==
    \E p \in Tasks :
        /\ comm[p].phase = "chunk" /\ comm[p].ichunk >= 1
        /\ At(mpi_nsend, p, comm[p].recvTask) > 0
        /\ comm[p].chunks.cursendchunksize = 0
        /\ comm[p].chunks.currecvchunksize > 0

\* ------------------------------------------------------------------------
\* Transport: processes that hold different send-count matrices
\* ------------------------------------------------------------------------
\* In this specification mpi_nsend, commpair and comm hold one value per
\* process: the matrix the process holds, the pair list it generated from it
\* and its position in that list. The payload is left out.

\* largest entry of a matrix in this specification
MaxStaleItems == 2

StaleCounts == {0, MaxStaleItems}

\* the matrices held by the np processes: all processes hold the same one, or
\* one process holds a matrix that differs from that of the others in one
\* entry
StaleMatrices(np) ==
    LET M == Matrices(np, StaleCounts)
        OneOff(m) == { x \in M : Cardinality({ k \in DOMAIN m : x[k] # m[k] }) <= 1 }
    IN  UNION { { [p \in 0 .. (np - 1) |-> IF p = s THEN st ELSE m] :
                    s \in 0 .. (np - 1), st \in OneOff(m) } : m \in M }

\* the pair lists of the processes: the double loop and the seeded shuffle
\* give two processes the same list when their matrices list the same pairs;
\* the matrices of the processes list at most two different sets of pairs
StaleLists ==
    LET first == CommPairSet(mpi_nsend[0])
        others == { CommPairSet(mpi_nsend[p]) : p \in Tasks } \ {first}
        second == IF others = {} THEN first ELSE CHOOSE S \in others : TRUE
    IN  { [p \in Tasks |-> IF CommPairSet(mpi_nsend[p]) = first THEN a ELSE b] :
            a \in Orderings(first), b \in Orderings(second) }

\* MPI raises a truncation error for a message longer than the receive
\* posted for it, were it to raise one for a shorter message too
TruncatedIfDifferent(sent, posted) == sent # posted

\* MPI raises a truncation error for a message longer than the receive
\* posted for it; a shorter message is received without an error
Truncated(sent, posted) == sent > posted

StaleInit ==
    /\ NProcs \in ProcCounts
    /\ mpi_nsend \in StaleMatrices(NProcs)
    /\ maxchunksize \in 1 .. MaxChunk
    /\ commpair \in StaleLists
    /\ comm = [p \in Tasks |-> EnterPair(mpi_nsend[p], commpair[p], maxchunksize, p, 1)]
    /\ mpierr = FALSE
    /\ FoFDataIn = <<>> /\ FoFDataGet = <<>>
    /\ DecompIdle
    /\ LinkIdle

\* the state of process p after one round of the chunk loop, by its own
\* matrix and pair list
StaleAfterRound(p, c) ==
    LET q == c.recvTask
        upd == MPIUpdateCommChunks(At(mpi_nsend[p], p, q), At(mpi_nsend[p], q, p), c.chunks)
    IN  IF c.ichunk + 1 >= c.chunks.numsendrecv
        THEN [EnterPair(mpi_nsend[p], commpair[p], maxchunksize, p, c.pos + 1)
                 EXCEPT !.last = [task |-> q, chunks |-> upd]]
        ELSE [c EXCEPT !.chunks = upd, !.ichunk = c.ichunk + 1]

\* one matched pair of blocking MPI_Sendrecv calls between p and q: the call
\* of a process returns only when its partner has posted the matching call
StaleSendRecvRound(p, q) ==
    /\ p < q
    /\ ~mpierr
    /\ comm[p].phase = "chunk" /\ comm[q].phase = "chunk"
    /\ comm[p].recvTask = q /\ comm[q].recvTask = p
    /\ LET cp == comm[p].chunks
           cq == comm[q].chunks
       IN IF Truncated(cp.cursendchunksize, cq.currecvchunksize)
             \/ Truncated(cq.cursendchunksize, cp.currecvchunksize)
          THEN /\ mpierr' = TRUE
               /\ UNCHANGED comm
          ELSE /\ comm' = [comm EXCEPT ![p] = StaleAfterRound(p, comm[p]),
                                       ![q] = StaleAfterRound(q, comm[q])]
               /\ UNCHANGED mpierr
    /\ UNCHANGED <<NProcs, mpi_nsend, FoFDataIn, FoFDataGet, commpair, maxchunksize>>
    /\ UNCHANGED <<decompVars, linkVars>>

StaleNext == \E p, q \in Tasks : StaleSendRecvRound(p, q)

StaleSpec == StaleInit /\ [][StaleNext]_vars

\* two processes hold different matrices
Inconsistent == \E p, q \in Tasks : mpi_nsend[p] # mpi_nsend[q]

\* no call can return any more, and a process is inside a send-receive
Hung == ~mpierr /\ ~ENABLED StaleNext /\ \E p \in Tasks : comm[p].phase = "chunk"

\* the sender of some pair holds a larger count for it than the receiver
SenderHoldsMore ==
    \E p, q \in Tasks : p # q /\ At(mpi_nsend[p], p, q) > At(mpi_nsend[q], p, q)

\* C27 as stated: if processes enter a pairwise exchange holding inconsistent
\* or stale send-count matrices, the result is an unrecoverable hang (some
\* process blocks forever in a send-receive) and never a detected error.
C27_InconsistentAlwaysHangs ==
    Inconsistent => (~mpierr /\ (~ENABLED StaleNext => Hung))

\* C27: the code checks nothing, and what follows from matrices that differ
\* between processes depends on the difference: the exchange ends with a
\* process blocked forever in a send-receive, or with a truncation error
\* raised by MPI, which happens only if some sender holds a larger count than
\* its receiver, or it completes without any error, which happens only if no
\* sender holds a larger count than its receiver; when all processes hold the
\* same matrix it always completes.
C27_OutcomeFollowsDifference ==
    /\ ~ENABLED StaleNext => (Hung \/ mpierr \/ AllDone)
    /\ mpierr => SenderHoldsMore
    /\ (AllDone /\ ~mpierr) => ~SenderHoldsMore
    /\ (~Inconsistent /\ ~ENABLED StaleNext) => (AllDone /\ ~mpierr)

\* the exchange has completed without an error although a process expected
\* more items from its partner than the partner held for it
C27_Witness ==
    /\ Inconsistent /\ AllDone /\ ~mpierr
    /\ \E p, q \in Tasks :
          /\ p # q
          /\ At(mpi_nsend[p], p, q) < At(mpi_nsend[q], p, q)
          /\ comm[q].last.task # -1

\* the matrices differ and a process hangs; the matrices differ and MPI has
\* raised a truncation error
StaleHangReached == Inconsistent /\ Hung
StaleErrorReached == Inconsistent /\ mpierr

\* ------------------------------------------------------------------------
\* Mesh rebalance: the threshold
\* ------------------------------------------------------------------------
\* particles per process under the cell-to-process table, before the call
LoadBefore(p) == TaskLoad(opt.cellnodeids, CellTotals(opt, NProcs), p)

\* (max - min) / average of the per-process particle counts exceeds the
\* configured threshold, which the options hold in tenths
ExceedsThreshold ==
    \E p, q \in Tasks :
        (LoadBefore(p) - LoadBefore(q)) * NProcs * 10
            > opt.mpimeshimbalancelimit * SumFn([r \in Tasks |-> LoadBefore(r)], NProcs)

\* C28: the rebalance re-cuts the cell assignment only if the imbalance
\* (max - min)/average of per-process particle counts exceeds the configured
\* threshold; when the imbalance does not exceed the threshold, the
\* cell-to-process table and the local particle count are left unchanged and
\* the call returns false.
C28_RecutOnlyAboveThreshold ==
    [][(located.step = "counted" /\ located'.step # "counted") =>
          /\ (located'.step \in {"repartitioned", "aborted"}) => ExceedsThreshold
          /\ (opt'.cellnodeids # opt.cellnodeids \/ Nlocal' # Nlocal) => ExceedsThreshold
          /\ ~ExceedsThreshold =>
                /\ located'.step = "balanced"
                /\ opt'.cellnodeids = opt.cellnodeids
                /\ Nlocal' = Nlocal
                /\ located'.returned = FALSE]_vars

\* the call has returned false and left the table alone on a mesh whose
\* processes hold different numbers of particles, while a re-cut would have
\* given another table
C28_Witness ==
    /\ located.step = "balanced" /\ ~located.returned
    /\ \E p, q \in Tasks :
          TaskLoad(opt.cellnodeids, opt.cellnodenumparts[0], p)
             > TaskLoad(opt.cellnodeids, opt.cellnodenumparts[0], q)
    /\ Repartitioned(opt, opt.cellnodenumparts[0], NProcs).ids # opt.cellnodeids

\* ------------------------------------------------------------------------
\* Mesh decomposition: the length of the runs
\* ------------------------------------------------------------------------
\* the Z-order ranks of process p when every process but the last takes a
\* run of k cells and the last process takes what is left
RunOf(p, k) ==
    IF p < NProcs - 1
    THEN { i \in 0 .. (opt.numcells - 1) : p * k <= i /\ i < (p + 1) * k }
    ELSE { i \in 0 .. (opt.numcells - 1) : (NProcs - 1) * k <= i }

\* C29 as stated: mesh decomposition assigns the Z-order-sorted cells in
\* contiguous runs of ceil(cells/P) cells per process, with the last process
\* absorbing the remainder.
C29_RunsOfCeiling ==
    (opt.impiusemesh /\ located.step = "decomposed") =>
       \A p \in Tasks : RanksOf(p) = RunOf(p, CeilDiv(opt.numcells, NProcs))

\* C29: mesh decomposition assigns the Z-order-sorted cells in contiguous
\* runs of floor(cells/P) cells per process, one cell when that is zero, with
\* the last process absorbing the remainder.
C29_RunsOfFloor ==
    (opt.impiusemesh /\ located.step = "decomposed") =>
       \A p \in Tasks : RanksOf(p) = RunOf(p, Max(opt.numcells \div NProcs, 1))

\* the decomposition of a mesh whose cell count is not a multiple of the
\* process count is done, and the last process holds more cells than the
\* first
C29_Witness ==
    /\ opt.impiusemesh
    /\ located.step = "decomposed"
    /\ opt.numcells % NProcs # 0
    /\ opt.numcells > NProcs
    /\ Cardinality(RanksOf(NProcs - 1)) > Cardinality(RanksOf(0))

\* ------------------------------------------------------------------------
\* Mesh search: the cell indices of a search interval
\* ------------------------------------------------------------------------
\* In this specification located is the record of one call of the cell
\* search on process located.task: the search box, the per-axis indices
\* after the wrap, the flat indices in the order of the triple loop, and the
\* list of processes returned.

\* largest search radius of the runs, in ticks
MaxSearchRadius == 5

\* the meshes of the search runs, for every process count and resolution
SearchMesh ==
    [np \in BalanceProcs |->
        [n \in 1 .. MaxCellsPerDim |->
            MeshDecomposition(
               [impiusemesh |-> TRUE, numcellsperdim |-> n, minnumcellperdim |-> 1,
                numcells |-> 0, cellnodeids |-> <<>>, cellnodeorder |-> <<>>,
                cellnodenumparts |-> <<>>, newcellnodeids |-> <<>>], np)]]

\* the per-axis cell indices of a search after the wrap
WrappedCoords(o, xlim, xsearch) ==
    [axis \in 0 .. 2 |->
        { WrappedCoord(o.numcellsperdim, i) :
            i \in CellCoord(o, xlim, axis, xsearch[axis][0])
                  .. CellCoord(o, xlim, axis, xsearch[axis][1]) }]

\* what a read of opt.cellnodeids beyond its ends may give
OutOfBoundsReads == -1 .. (NProcs - 1)

\* the list of a search on a mesh without side table, when a read beyond
\* the ends of opt.cellnodeids gives g: the owners of the cells in the order
\* of the triple loop, without the process itself
NodeIDsOfCellsRead(o, cells, task, g) ==
    SelectSeq([k \in DOMAIN cells |->
                  IF cells[k] \in DOMAIN o.cellnodeids THEN o.cellnodeids[cells[k]] ELSE g],
              LAMBDA c : c # task)

CellSearchInit ==
    /\ NProcs \in BalanceProcs
    /\ \E n \in 1 .. MaxCellsPerDim : opt = SearchMesh[NProcs][n]
    /\ mpi_xlim = [axis \in 0 .. 2 |->
                     [side \in 0 .. 1 |-> IF side = 0 THEN 0 ELSE 2 * opt.numcellsperdim]]
    /\ mpi_nxsplit = <<>>
    /\ mpi_domain = <<>>
    /\ \E task \in Tasks, r \in 0 .. MaxSearchRadius :
       \E x \in 0 .. (mpi_xlim[0][1] - 1), y \in {0, mpi_xlim[1][1] - 1},
          z \in {0, mpi_xlim[2][1] - 1} :
          located = [step |-> "start", task |-> task,
                     xsearch |-> [axis \in 0 .. 2 |->
                                    [side \in 0 .. 1 |->
                                       (IF axis = 0 THEN x ELSE IF axis = 1 THEN y ELSE z)
                                       + (IF side = 0 THEN 0 - r ELSE r)]],
                     coords |-> <<>>, cells |-> <<>>, list |-> <<>>]
    /\ ExchangeIdle
    /\ TransportIdle
    /\ LinkIdle

\* one call of MPIGetCellNodeIDListInSearchUsingMesh; a read beyond the ends
\* of opt.cellnodeids stops the process or gives some value
GetCellNodeIDListInSearch ==
    /\ located.step = "start"
    /\ LET cells == CellsInSearch(opt, mpi_xlim, located.xsearch)
           coords == WrappedCoords(opt, mpi_xlim, located.xsearch)
       IN  IF \A k \in DOMAIN cells : cells[k] \in DOMAIN opt.cellnodeids
           THEN located' = [located EXCEPT
                               !.step = "searched", !.coords = coords, !.cells = cells,
                               !.list = NodeIDsOfCellsRead(opt, cells, located.task, -1)]
           ELSE \/ located' = [located EXCEPT
                                  !.step = "stopped", !.coords = coords, !.cells = cells]
                \/ \E g \in OutOfBoundsReads :
                      located' = [located EXCEPT
                                     !.step = "searched", !.coords = coords, !.cells = cells,
                                     !.list = NodeIDsOfCellsRead(opt, cells, located.task, g)]
    /\ UNCHANGED <<opt, mpi_xlim, mpi_nxsplit, mpi_domain>>
    /\ UNCHANGED <<sharedVars, transportVars, linkVars>>

CellSearchNext == GetCellNodeIDListInSearch

CellSearchSpec == CellSearchInit /\ [][CellSearchNext]_vars

\* C30 as stated: for the mesh partition, every cell index that the planner
\* derives from a search interval is wrapped modulo the grid resolution: for
\* any particle position and any search radius each per-axis index lies in
\* [0, numcellsperdim) and the flat cell index used to look up the owner
\* lies in [0, numcells).
C30_IndicesWrapped ==
    located.step # "start" =>
       /\ \A axis \in 0 .. 2 :
             located.coords[axis] \subseteq 0 .. (opt.numcellsperdim - 1)
       /\ \A k \in DOMAIN located.cells : located.cells[k] \in 0 .. (opt.numcells - 1)

\* a search has returned after it looked up the owner of a cell with a
\* negative flat index
C30_Witness ==
    /\ located.step = "searched"
    /\ \E k \in DOMAIN located.cells : located.cells[k] < 0
    /\ \E axis \in 0 .. 2 : \E i \in located.coords[axis] : i < 0

\* a search that reaches less than one width of the volume beyond its faces
\* stays within the mesh
WithinOnePeriod ==
    \A axis \in 0 .. 2 :
        /\ located.xsearch[axis][0] >= 0 - mpi_xlim[axis][1]
        /\ located.xsearch[axis][1] < 2 * mpi_xlim[axis][1]

SearchWithinOnePeriodWrapped ==
    (located.step # "start" /\ WithinOnePeriod) =>
       /\ located.step = "searched"
       /\ \A axis \in 0 .. 2 :
             located.coords[axis] \subseteq 0 .. (opt.numcellsperdim - 1)
       /\ \A k \in DOMAIN located.cells : located.cells[k] \in 0 .. (opt.numcells - 1)

\* ------------------------------------------------------------------------
\* Group exchange under the mesh: the table of additional owners
\* ------------------------------------------------------------------------
\* Two processes hold one particle each of a mesh of MaxCellsPerDim + 1
\* cells per dimension.  A run is a sequence of searches: the linking of a
\* search, which is not run here, leaves an owner in mpi_foftask for every
\* particle, MPIGroupExchange records the cells of the exported particles,
\* and the export planner of a later search consults the table.

\* largest number of MPIGroupExchange calls of a run
MaxExchangeCalls == 2

\* positions of the particles of these runs: the particle of process 0 and
\* the particle of process 1, in neighbouring cells
CellTablePositions == << <<1, 1, 1>>, <<2, 2, 2>> >>

\* the particle sets of these runs: the first two processes hold a particle
CellTableParticles(np) ==
    { [p \in 0 .. (np - 1) |->
          IF p + 1 \in DOMAIN CellTablePositions
          THEN <<[x |-> CellTablePositions[p + 1][1], y |-> CellTablePositions[p + 1][2],
                  z |-> CellTablePositions[p + 1][3], PID |-> p + 1]>>
          ELSE <<>>] }

\* the owners the linking of a search can leave for the particles in parts
OwnersAfterLinking(np, parts) ==
    { [p \in 0 .. (np - 1) |-> [i \in DOMAIN parts[p] |-> o[p]]] :
        o \in [0 .. (np - 1) -> 0 .. (np - 1)] }

\* newcellinfo[index] on a process: the owners of the exported particles of
\* the cell
newcellinfo(o, xlim, export, index) ==
    { export[e].Task : e \in { k \in DOMAIN export :
          CellIndex(o, xlim, export[k].p.x, export[k].p.y, export[k].p.z) = index } }

RECURSIVE GatheredCellTasks(_, _, _, _, _)
\* the entries of mpi_newcelltask for one cell, from the processes below j
GatheredCellTasks(o, xlim, exports, index, j) ==
    IF j = 0 THEN <<>>
    ELSE GatheredCellTasks(o, xlim, exports, index, j - 1)
         \o SortedSeq(newcellinfo(o, xlim, exports[j - 1], index))

\* the table, were it rebuilt by every call
ReplacedCellTable(o, xlim, exports, np) ==
    [index \in 0 .. (o.numcells - 1) |-> GatheredCellTasks(o, xlim, exports, index, np)]

\* opt.newcellnodeids after the update of MPIGroupExchange: the vector is
\* resized to the number of cells and the gathered owners are pushed back
AppendedCellTable(o, xlim, exports, np) ==
    [index \in 0 .. (o.numcells - 1) |->
        (IF o.newcellnodeids = <<>> THEN <<>> ELSE o.newcellnodeids[index])
        \o GatheredCellTasks(o, xlim, exports, index, np)]

\* state at the first search of a run under the mesh: no call has been made
\* and opt.newcellnodeids has size zero
CellTableInit ==
    /\ NProcs \in BalanceProcs
    /\ opt = PlannerMesh[NProcs]
    /\ located = [calls |-> 0]
    /\ Part \in CellTableParticles(NProcs)
    /\ mpi_foftask \in OwnersAfterLinking(NProcs, Part)
    /\ MeshExportStart

\* MPIGroupExchange on every process under the mesh, with its exchange and
\* the update of the table
MPIGroupExchangeUsingMesh ==
    /\ linkstep.stage = "start"
    /\ located.calls < MaxExchangeCalls
    /\ mpi_nsend' = Allgather([p \in Tasks |-> nsend_group(p)])
    /\ NImport' = [p \in Tasks |-> ColumnSum(mpi_nsend', p)]
    /\ Nlocal' = [p \in Tasks |->
                    NewLocalCount(Len(Part[p]),
                                  SumFn([j \in Tasks |-> mpi_nsend'[j + p * NProcs]], NProcs),
                                  ColumnSum(mpi_nsend', p))]
    /\ Part' = [p \in Tasks |-> [i \in DOMAIN Part[p] |-> Part[p][KeptFirst(p)[i]]]]
    /\ pfof' = [p \in Tasks |-> [i \in DOMAIN Part[p] |-> pfof[p][KeptFirst(p)[i]]]]
    /\ mpi_foftask' =
          [p \in Tasks |-> [i \in DOMAIN Part[p] |-> mpi_foftask[p][KeptFirst(p)[i]]]]
    /\ LET export == [p \in Tasks |->
                         GroupExport(p, Part'[p], pfof'[p], mpi_foftask'[p], NProcs)]
       IN  /\ FoFGroupDataLocal' = Exchanged(mpi_nsend', export)
           /\ opt' = [opt EXCEPT
                        !.newcellnodeids = AppendedCellTable(opt, mpi_xlim, export, NProcs)]
    /\ located' = [calls |-> located.calls + 1]
    /\ linkstep' = [linkstep EXCEPT !.stage = "exchanged"]
    /\ UNCHANGED <<NProcs, FoFDataIn, FoFDataGet, transportVars,
                   mpi_xlim, mpi_nxsplit, mpi_domain>>
    /\ UNCHANGED <<mpi_period, GroupLen, ChainHead, ChainNext, mpi_nlocal, mpi_ngroups,
                   rankorder, mpi_maxgid, mpi_gidoffset, PartDataGet, NExport, links,
                   lastpass>>

\* the next search of the run: the buffers of the finished search are gone
\* and the linking leaves new owners
NextSearch ==
    /\ linkstep.stage = "exchanged"
    /\ mpi_foftask' \in OwnersAfterLinking(NProcs, Part)
    /\ mpi_nsend' = [k \in 0 .. (NProcs * NProcs - 1) |-> 0]
    /\ NImport' = [p \in Tasks |-> 0]
    /\ FoFGroupDataLocal' = <<>>
    /\ Nlocal' = <<>>
    /\ linkstep' = [linkstep EXCEPT !.stage = "start"]
    /\ UNCHANGED <<NProcs, FoFDataIn, FoFDataGet, transportVars, decompVars>>
    /\ UNCHANGED <<mpi_period, Part, pfof, GroupLen, ChainHead, ChainNext, mpi_nlocal,
                   mpi_ngroups, rankorder, mpi_maxgid, mpi_gidoffset, PartDataGet,
                   NExport, links, lastpass>>

CellTableNext ==
    \/ MPIGroupExchangeUsingMesh
    \/ NextSearch
    \/ MPIGetExportNumUsingMesh
    \/ MPIBuildParticleExportListUsingMesh

CellTableSpec == CellTableInit /\ [][CellTableNext]_vars

\* the additional owners recorded for a cell; none while the vector has size zero
RecordedFor(o, index) ==
    IF o.newcellnodeids = <<>> THEN <<>> ELSE o.newcellnodeids[index]

\* a step removes no association: what was recorded for a cell is the front
\* of what is recorded after it
KeepsAssociations ==
    \A index \in 0 .. (opt.numcells - 1) :
        /\ Len(RecordedFor(opt, index)) <= Len(RecordedFor(opt', index))
        /\ SubSeq(RecordedFor(opt', index), 1, Len(RecordedFor(opt, index)))
              = RecordedFor(opt, index)

\* the export buffers carry particle i of process p to every additional
\* owner of every cell its search covers, the process itself left out
TableConsulted ==
    \A p \in Tasks : \A i \in DOMAIN Part[p] :
        LET cells == CellsInSearch(opt, mpi_xlim, MeshSearchBox(Part[p][i]))
        IN  \A k \in DOMAIN cells : \A m \in DOMAIN RecordedFor(opt, cells[k]) :
                RecordedFor(opt, cells[k])[m] # p
                => \E e \in DOMAIN FoFDataIn[p] :
                      /\ FoFDataIn[p][e].Index = i
                      /\ FoFDataIn[p][e].Task = RecordedFor(opt, cells[k])[m]

\* C31: the table of additional owners is additive only. No step of a run
\* with any number of MPIGroupExchange calls removes an association
\* (cell, process) that was recorded, and the export buffers a later planner
\* call builds carry every particle to every process recorded for a cell its
\* search covers, except to the process that holds the particle.
C31_TableAdditiveAndConsulted ==
    [][/\ KeepsAssociations
       /\ (linkstep'.stage = "planned" => TableConsulted')]_vars

\* the planner has built its buffers after two calls, the second of which
\* added to a cell that already had an owner recorded, and a particle has
\* been exported to a process that only the table names
C31_Witness ==
    /\ linkstep.stage = "planned"
    /\ located.calls = MaxExchangeCalls
    /\ \E index \in 0 .. (opt.numcells - 1) : Len(RecordedFor(opt, index)) >= 2
    /\ \E p \in Tasks : \E e \in DOMAIN FoFDataIn[p] :
          LET cells == CellsInSearch(opt, mpi_xlim,
                                     MeshSearchBox(Part[p][FoFDataIn[p][e].Index]))
          IN  /\ \A k \in DOMAIN cells : opt.cellnodeids[cells[k]] # FoFDataIn[p][e].Task
              /\ \E k \in DOMAIN cells : \E m \in DOMAIN RecordedFor(opt, cells[k]) :
                    RecordedFor(opt, cells[k])[m] = FoFDataIn[p][e].Task

\* ------------------------------------------------------------------------
\* The partition after startup
\* ------------------------------------------------------------------------
\* the slab the decomposition gave process j at startup
StartupDomain(j) == SlabDomain(mpi_xlim, mpi_nxsplit, j)

\* what the scan of MPIGetParticlesProcessor returns for the point (x, 0, 0)
\* with the boxes given: the first process whose box holds it, -1 for none
BoxOwner(domain, x) ==
    LET in == { j \in Tasks : InSlab(domain[j], x, 0, 0) }
    IN  IF in = {} THEN -1 ELSE CHOOSE j \in in : \A k \in in : j <= k

\* the positions of the linking runs
LinkPositions == mpi_xlim[0][0] .. mpi_xlim[0][1]

\* C32 as stated: after startup the partition changes only in a rebalance, so
\* the export planner, the linking passes, MPIGroupExchange and
\* MPICompileGroups leave every position with the owner it had at startup.
C32_OwnersKeptByMigration ==
    \A x \in LinkPositions :
        BoxOwner(mpi_domain, x) = BoxOwner([j \in Tasks |-> StartupDomain(j)], x)

\* C32, as the code has it under the slab decomposition: the export planner,
\* the linking passes and MPIGroupExchange leave the boxes as they were at
\* startup; MPICompileGroups moves a bound of the box of a process outwards,
\* to the coordinate of a particle the process imported, so a box only grows
\* and a position may pass to a process of lower rank.
C32_BoxesKeptUntilCompiled ==
    /\ linkstep.stage # "compiled" => mpi_domain = [j \in Tasks |-> StartupDomain(j)]
    /\ linkstep.stage = "compiled" =>
          \A p \in Tasks : \A j \in 0 .. 2 :
              /\ mpi_domain[p][j][0] <= StartupDomain(p)[j][0]
              /\ mpi_domain[p][j][1] >= StartupDomain(p)[j][1]
              /\ \A side \in 0 .. 1 :
                    \/ mpi_domain[p][j][side] = StartupDomain(p)[j][side]
                    \/ \E i \in DOMAIN Part[p] :
                          Position(Part[p][i])[j] = mpi_domain[p][j][side]
    /\ \A x \in LinkPositions :
          BoxOwner(mpi_domain, x) <= BoxOwner([j \in Tasks |-> StartupDomain(j)], x)

\* MPICompileGroups has moved a bound, and a position has changed its owner
C32_Witness ==
    /\ linkstep.stage = "compiled"
    /\ \E p \in Tasks : mpi_domain[p] # StartupDomain(p)
    /\ \E x \in LinkPositions :
          BoxOwner(mpi_domain, x) # BoxOwner([j \in Tasks |-> StartupDomain(j)], x)

\* ------------------------------------------------------------------------
\* Group compaction: the box of a process and the particles it imported
\* ------------------------------------------------------------------------
\* largest number of particles of a dataset that reaches the lower face of
\* the volume
MaxStretchPart == 5

\* the particle sets of these runs: as in the linking runs, with particles
\* at the lower face of the volume too, so that a process can hold particles
\* at two positions
StretchParticles(np) ==
    LET owner == [x \in 0 .. np |-> SlabOwner(np, LinkVolume(np), x)]
    IN  { [p \in 0 .. (np - 1) |->
              LocalParts(xs, [g \in DOMAIN xs |-> owner[xs[g]]], p, Len(xs))] :
            xs \in { ys \in UNION { [1 .. n -> 0 .. np] : n \in np .. MaxStretchPart } :
                       \A p \in 0 .. (np - 1) : \E g \in DOMAIN ys : owner[ys[g]] = p } }

StretchInit ==
    /\ NProcs \in ProcCounts
    /\ Part \in StretchParticles(NProcs)
    /\ LinkStart

\* the linking and migration run on these particles
StretchSpec == StretchInit /\ [][LinkNext]_vars

\* the box of process p after a step holds every particle the process had
\* imported before it
ImportsInsideBox(p) ==
    \A e \in DOMAIN FoFGroupDataLocal[p] :
        InSlab(mpi_domain'[p],
               Position(FoFGroupDataLocal[p][e].p)[0],
               Position(FoFGroupDataLocal[p][e].p)[1],
               Position(FoFGroupDataLocal[p][e].p)[2])

\* C33: under the slab decomposition, when MPICompileGroups has updated the
\* boxes, the box of every process holds the position of every particle the
\* process imported, whatever their number and order.
C33_BoxHoldsImports ==
    [][(linkstep.stage = "exchanged" /\ linkstep'.stage = "compiled")
       => \A p \in Tasks : ImportsInsideBox(p)]_vars

\* a process is about to compile two imported particles that lie beyond the
\* same bound of its box, the farther one first
C33_Witness ==
    /\ linkstep.stage = "exchanged"
    /\ \E p \in Tasks : \E e1, e2 \in DOMAIN FoFGroupDataLocal[p] :
          /\ e1 < e2
          /\ \/ /\ Position(FoFGroupDataLocal[p][e1].p)[0]
                      < Position(FoFGroupDataLocal[p][e2].p)[0]
                /\ Position(FoFGroupDataLocal[p][e2].p)[0] < mpi_domain[p][0][0]
             \/ /\ Position(FoFGroupDataLocal[p][e1].p)[0]
                      > Position(FoFGroupDataLocal[p][e2].p)[0]
                /\ Position(FoFGroupDataLocal[p][e2].p)[0] > mpi_domain[p][0][1]

\* ------------------------------------------------------------------------
\* Baryon group exchange and compaction: the receive buffer
\* ------------------------------------------------------------------------
\* The baryons of a process are the particles of Part; a baryon is ungrouped
\* (pfof 0) or belongs to the group of a dark matter halo, whose id is
\* t + 1 when process t owns it.  Nlocal is Nlocalbaryon[0], which is the
\* number of baryons of the process when MPIBaryonGroupExchange is called.
\* FoFGroupDataLocal is the buffer as allocated; a slot nothing was written
\* to holds Unwritten.  linkstep keeps Nmemlocalbaryon, the branch each call
\* took on every process and the indices written behind the end of the
\* buffer.

\* largest number of baryons in a run
MaxBaryons == 3

\* content of a slot of the buffer that was allocated and not written
Unwritten == [Index |-> -1]

\* the group ids of the baryons of the processes: at most MaxBaryons in all
BaryonGroups(np) ==
    { ids \in [0 .. (np - 1) -> UNION { [1 .. n -> 0 .. np] : n \in 0 .. MaxBaryons }] :
        SumFn([p \in 0 .. (np - 1) |-> Len(ids[p])], np) <= MaxBaryons }

\* state before MPIBaryonGroupExchange: the baryon search has given every
\* baryon a group and the owner of that group
BaryonInit ==
    /\ NProcs \in ProcCounts
    /\ pfof \in BaryonGroups(NProcs)
    /\ Part = [p \in Tasks |-> [i \in DOMAIN pfof[p] |-> [x |-> 0, PID |-> 10 * p + i, ID |-> i]]]
    /\ mpi_foftask = [p \in Tasks |->
                         [i \in DOMAIN pfof[p] |-> IF pfof[p][i] = 0 THEN p ELSE pfof[p][i] - 1]]
    /\ Nlocal = [p \in Tasks |-> Len(Part[p])]
    /\ mpi_nsend = [k \in 0 .. (NProcs * NProcs - 1) |-> 0]
    /\ NImport = [p \in Tasks |-> 0]
    /\ FoFGroupDataLocal = [p \in Tasks |-> <<>>]
    /\ linkstep = [stage |-> "start"]
    /\ FoFDataIn = <<>> /\ FoFDataGet = <<>>
    /\ mpi_period = 0 /\ GroupLen = <<>> /\ ChainHead = <<>> /\ ChainNext = <<>>
    /\ mpi_nlocal = <<>> /\ mpi_ngroups = <<>> /\ rankorder = <<>> /\ mpi_maxgid = <<>>
    /\ mpi_gidoffset = <<>> /\ PartDataGet = <<>> /\ NExport = <<>> /\ links = <<>>
    /\ lastpass = <<>>
    /\ TransportIdle
    /\ DecompIdle

\* nlocal = nbodies - nexport + nimport on process p, for the matrix m
BaryonNewLocal(m, p) ==
    NewLocalCount(Len(Part[p]), SumFn([j \in Tasks |-> m[j + p * NProcs]], NProcs),
                  ColumnSum(m, p))

\* the test that picks the branch of MPIBaryonGroupExchange: the primary
\* array is kept when the new count fits the memory
FitsLocalMemory(nlocal, nmem) == nlocal <= nmem

\* the test that picks the base of noffset_import
ImportsFromZero(nlocal, nlocalbaryon) == nlocal < nlocalbaryon

\* the test that picks the branch of MPIBaryonCompileGroups
ReadsPrimaryArray(nmem, nbodies) == nmem > nbodies

\* noffset_import[j] on process p
noffset_import(m, p, j) ==
    (IF ImportsFromZero(BaryonNewLocal(m, p), Nlocal[p]) THEN 0
     ELSE Len(Part[p]) - SumFn([k \in Tasks |-> m[k + p * NProcs]], NProcs))
    + (IF j # p THEN SumFn([k \in Tasks |-> IF k < j THEN m[p + k * NProcs] ELSE 0], NProcs)
       ELSE 0)

\* the receives of process p: <<index in FoFGroupDataLocal, record>>, the
\* index counted from 0 as in the code
BaryonReceives(m, export, p) ==
    UNION { { <<noffset_import(m, p, j) + (e - 1),
                SelectSeq(export[j], LAMBDA r : r.Task = p)[e]>> :
                 e \in 1 .. m[p + j * NProcs] } : j \in Tasks \ {p} }

\* FoFGroupDataLocal of process p as allocated and filled before the receives
BaryonBuffer(m, parts, ids, p) ==
    LET nlocal == BaryonNewLocal(m, p)
        nn == Len(Part[p]) - SumFn([k \in Tasks |-> m[k + p * NProcs]], NProcs)
    IN  IF FitsLocalMemory(nlocal, Nlocal[p])
        THEN [i \in 1 .. ColumnSum(m, p) |-> Unwritten]
        ELSE [i \in 1 .. nlocal |->
                 IF i <= nn
                 THEN [p |-> parts[i], Index |-> i, Task |-> p, iGroup |-> ids[i]]
                 ELSE Unwritten]

\* Part after the sort on (owner is another process) and the loops that set
\* the ID: minus the group id in the branch that keeps the primary array, the
\* index of the exported particles in the other
BaryonSorted(m, p) ==
    LET nn == Len(Part[p]) - SumFn([k \in Tasks |-> m[k + p * NProcs]], NProcs)
    IN  [i \in DOMAIN Part[p] |->
            [Part[p][KeptFirst(p)[i]] EXCEPT
                !.ID = IF FitsLocalMemory(BaryonNewLocal(m, p), Nlocal[p])
                       THEN 0 - pfof[p][KeptFirst(p)[i]]
                       ELSE IF i > nn THEN i ELSE KeptFirst(p)[i]]]

\* an array rearranged by the sort: everywhere in the branch that keeps the
\* primary array, from nn on in the other
BaryonRearranged(m, p, arr) ==
    LET nn == Len(Part[p]) - SumFn([k \in Tasks |-> m[k + p * NProcs]], NProcs)
    IN  [i \in DOMAIN Part[p] |->
            IF FitsLocalMemory(BaryonNewLocal(m, p), Nlocal[p]) \/ i > nn
            THEN arr[KeptFirst(p)[i]] ELSE arr[i]]

\* MPIBaryonGroupExchange on every process, with its exchange. A receive
\* behind the end of the buffer overwrites memory that is not the buffer's:
\* the run stops there or goes on.
MPIBaryonGroupExchange ==
    /\ linkstep.stage = "start"
    /\ LET m == Allgather([p \in Tasks |-> nsend_group(p)])
           sortedids == [p \in Tasks |->
                            [i \in DOMAIN Part[p] |-> pfof[p][KeptFirst(p)[i]]]]
           sortedtasks == [p \in Tasks |->
                              [i \in DOMAIN Part[p] |-> mpi_foftask[p][KeptFirst(p)[i]]]]
           sorted == [p \in Tasks |-> BaryonSorted(m, p)]
           export == [p \in Tasks |->
                         GroupExport(p, sorted[p], sortedids[p], sortedtasks[p], NProcs)]
           buffer == [p \in Tasks |-> BaryonBuffer(m, sorted[p], sortedids[p], p)]
           receives == [p \in Tasks |-> BaryonReceives(m, export, p)]
           outside == [p \in Tasks |->
                          { w[1] : w \in { v \in receives[p] : v[1] >= Len(buffer[p]) } }]
       IN  /\ mpi_nsend' = m
           /\ NImport' = [p \in Tasks |-> ColumnSum(m, p)]
           /\ Nlocal' = [p \in Tasks |-> BaryonNewLocal(m, p)]
           /\ Part' = sorted
           /\ pfof' = [p \in Tasks |-> BaryonRearranged(m, p, pfof[p])]
           /\ mpi_foftask' = [p \in Tasks |-> BaryonRearranged(m, p, mpi_foftask[p])]
           /\ FoFGroupDataLocal' =
                 [p \in Tasks |->
                     [i \in DOMAIN buffer[p] |->
                         IF \E w \in receives[p] : w[1] = i - 1
                         THEN (CHOOSE w \in receives[p] : w[1] = i - 1)[2]
                         ELSE buffer[p][i]]]
           /\ \E stage \in IF \E p \in Tasks : outside[p] # {}
                            THEN {"exchanged", "stopped"} ELSE {"exchanged"} :
                 linkstep' = [stage |-> stage,
                              Nmemlocalbaryon |-> Nlocal,
                              dedicated |-> [p \in Tasks |->
                                  ~FitsLocalMemory(BaryonNewLocal(m, p), Nlocal[p])],
                              outside |-> outside]
    /\ UNCHANGED <<NProcs, FoFDataIn, FoFDataGet, transportVars, decompVars>>
    /\ UNCHANGED <<mpi_period, GroupLen, ChainHead, ChainNext, mpi_nlocal, mpi_ngroups,
                   rankorder, mpi_maxgid, mpi_gidoffset, PartDataGet, NExport, links,
                   lastpass>>

\* fof_id_cmp_vec on two records of one particle type: by group id, then by ID
fof_id_cmp_vec(a, b) ==
    \/ a.iGroup < b.iGroup
    \/ a.iGroup = b.iGroup /\ a.p.ID < b.p.ID

RECURSIVE SortByGroup(_)
\* std::sort of FoFGroupDataLocal with fof_id_cmp_vec: ascending group id, so
\* the ungrouped records (group 0) come first
SortByGroup(arr) ==
    IF arr = <<>> THEN <<>>
    ELSE LET n == Len(arr)
             head == SortByGroup(SubSeq(arr, 1, n - 1))
             pos == Cardinality({ j \in 1 .. (n - 1) : ~fof_id_cmp_vec(arr[n], head[j]) })
         IN  SubSeq(head, 1, pos) \o <<arr[n]>> \o SubSeq(head, pos + 1, n - 1)

RECURSIVE FilterSmallGroups(_, _, _, _, _)
\* the loop over FoFGroupDataLocal that closes a run when the group id
\* changes, sets the run to 0 if it is shorter than minsize and counts it
\* otherwise, and stops at the first record of group 0
FilterSmallGroups(arr, i, start, ngroups, minsize) ==
    IF i > Len(arr) THEN [arr |-> arr, ngroups |-> ngroups]
    ELSE LET closes == arr[i].iGroup # arr[start].iGroup
             small == (i - start) < minsize
             arr1 == IF closes /\ small
                     THEN [j \in DOMAIN arr |->
                              IF j >= start /\ j < i
                              THEN [arr[j] EXCEPT !.iGroup = 0] ELSE arr[j]]
                     ELSE arr
             ngroups1 == IF closes /\ ~small THEN ngroups + 1 ELSE ngroups
             start1 == IF closes THEN i ELSE start
         IN  IF arr[i].iGroup = 0 THEN [arr |-> arr1, ngroups |-> ngroups1]
             ELSE FilterSmallGroups(arr1, i + 1, start1, ngroups1, minsize)

\* the first nbodies records of FoFGroupDataLocal of process p are inside
\* the buffer and were written
BufferHoldsAll(p) ==
    /\ Len(FoFGroupDataLocal[p]) >= Nlocal[p]
    /\ \A i \in 1 .. Nlocal[p] : FoFGroupDataLocal[p][i] # Unwritten

\* what the branch of MPIBaryonCompileGroups that reads all particles from
\* FoFGroupDataLocal finds there: a record read behind the end of the buffer
\* or from a slot nothing was written to has the group id g
BufferRead(p, g) ==
    [i \in 1 .. Nlocal[p] |->
        IF i <= Len(FoFGroupDataLocal[p]) /\ FoFGroupDataLocal[p][i] # Unwritten
        THEN FoFGroupDataLocal[p][i]
        ELSE [p |-> [x |-> 0, PID |-> 0, ID |-> 0], Index |-> i, Task |-> p, iGroup |-> g]]

\* particles and group ids of process p after MPIBaryonCompileGroups, by the
\* branch it takes
BaryonCompiled(p, minsize, g) ==
    IF ReadsPrimaryArray(linkstep.Nmemlocalbaryon[p], Nlocal[p])
    THEN LET arr == SortByID(FilterSmallRuns(SortByID(CompileInput(p)),
                                             1, 1, 0, minsize).arr)
         IN  [i \in DOMAIN arr |-> [p |-> arr[i].p, iGroup |-> 0 - arr[i].ID]]
    ELSE LET arr == SortByGroup(FilterSmallGroups(SortByGroup(BufferRead(p, g)),
                                                  1, 1, 0, minsize).arr)
         IN  [i \in DOMAIN arr |-> [p |-> arr[i].p, iGroup |-> arr[i].iGroup]]

\* MPIBaryonCompileGroups on every process. A process that reads records the
\* exchange did not put into the buffer stops there or goes on with what it
\* finds.
MPIBaryonCompileGroups(minsize) ==
    /\ linkstep.stage = "exchanged"
    /\ LET primary == [p \in Tasks |->
                          ReadsPrimaryArray(linkstep.Nmemlocalbaryon[p], Nlocal[p])]
           astray == { p \in Tasks : ~primary[p] /\ ~BufferHoldsAll(p) }
       IN  \E g \in IF astray = {} THEN {0} ELSE {0, 1} :
           \E stops \in IF astray = {} THEN {FALSE} ELSE {FALSE, TRUE} :
              /\ linkstep' = [stage |-> IF stops THEN "failed" ELSE "compiled",
                              Nmemlocalbaryon |-> linkstep.Nmemlocalbaryon,
                              dedicated |-> linkstep.dedicated,
                              outside |-> linkstep.outside,
                              primary |-> primary,
                              astray |-> astray]
              /\ IF stops
                 THEN UNCHANGED <<Part, pfof, mpi_ngroups, FoFGroupDataLocal>>
                 ELSE /\ Part' = [p \in Tasks |->
                                     [i \in 1 .. Nlocal[p] |->
                                         [BaryonCompiled(p, minsize, g)[i].p EXCEPT !.ID = i]]]
                      /\ pfof' = [p \in Tasks |->
                                     [i \in 1 .. Nlocal[p] |->
                                         BaryonCompiled(p, minsize, g)[i].iGroup]]
                      /\ mpi_ngroups' = [p \in Tasks |-> CountRuns(pfof'[p], 1, 1, 1)]
                      /\ FoFGroupDataLocal' = [p \in Tasks |-> <<>>]
    /\ UNCHANGED <<sharedVars, transportVars, decompVars>>
    /\ UNCHANGED <<mpi_period, mpi_foftask, GroupLen, ChainHead, ChainNext, mpi_nlocal,
                   rankorder, mpi_maxgid, mpi_gidoffset, PartDataGet, NExport, NImport,
                   links, lastpass, Nlocal>>

BaryonNext ==
    \/ MPIBaryonGroupExchange
    \/ \E minsize \in 1 .. MaxMinSize : MPIBaryonCompileGroups(minsize)

BaryonSpec == BaryonInit /\ [][BaryonNext]_vars

\* C34: in the baryon group exchange a dedicated receive buffer of the full
\* new local size is used exactly when the new local count exceeds the
\* memory of the process, and for every new local count, one equal to that
\* memory included, every imported record is written inside the buffer that
\* was allocated.
C34_ImportsInsideBuffer ==
    linkstep.stage \in {"exchanged", "stopped", "compiled", "failed"} =>
        \A p \in Tasks :
            /\ linkstep.dedicated[p] <=> Nlocal[p] > linkstep.Nmemlocalbaryon[p]
            /\ linkstep.outside[p] = {}

\* the exchange has made the count of a process that kept a baryon and
\* imported one equal to its memory
C34_Witness ==
    /\ linkstep.stage = "exchanged"
    /\ \E p \in Tasks :
          /\ Nlocal[p] = linkstep.Nmemlocalbaryon[p]
          /\ NImport[p] > 0
          /\ Nlocal[p] > NImport[p]

\* away from the point where the new count equals the memory the receives
\* stay inside the buffer
ImportsInsideOffCapacity ==
    linkstep.stage \in {"exchanged", "stopped", "compiled", "failed"} =>
        \A p \in Tasks :
            Nlocal[p] # linkstep.Nmemlocalbaryon[p] => linkstep.outside[p] = {}

\* C35: MPIBaryonCompileGroups reads the imported data in the mode in which
\* the preceding MPIBaryonGroupExchange wrote it, the primary array with the
\* imports in a buffer of their own or a buffer that holds all local
\* particles, for every new local count, one equal to the memory included.
C35_ReadAsWritten ==
    linkstep.stage \in {"compiled", "failed"} =>
        \A p \in Tasks : linkstep.primary[p] <=> ~linkstep.dedicated[p]

\* MPIBaryonCompileGroups has run on a process whose new count equals its
\* memory and which kept at least one baryon
C35_Witness ==
    /\ linkstep.stage \in {"compiled", "failed"}
    /\ \E p \in Tasks :
          /\ Nlocal[p] = linkstep.Nmemlocalbaryon[p]
          /\ Nlocal[p] > NImport[p]

\* away from the point where the new count equals the memory the two calls
\* agree, and no read goes astray
ReadAsWrittenOffCapacity ==
    linkstep.stage \in {"compiled", "failed"} =>
        \A p \in Tasks :
            Nlocal[p] # linkstep.Nmemlocalbaryon[p] =>
                /\ linkstep.primary[p] <=> ~linkstep.dedicated[p]
                /\ p \notin linkstep.astray

\* ------------------------------------------------------------------------
\* Group compaction: the number of groups that is broadcast
\* ------------------------------------------------------------------------
\* largest number of particles of these runs
MaxCountPart == 4
\* width of a slab of these runs, in linking lengths
CountSlabWidth == 3

\* the volume of these runs: slabs three linking lengths wide, so that a
\* process holds particles whose search box meets no other slab
CountVolume(np) ==
    [axis \in 0 .. 2 |-> [side \in 0 .. 1 |-> IF side = 0 THEN 0 ELSE CountSlabWidth * np]]

\* the particle sets of these runs: particles strictly inside the volume, one
\* linking length apart, every process holds a particle
CountParticles(np) ==
    LET top == CountSlabWidth * np - 1
        owner == [x \in 1 .. top |-> SlabOwner(np, CountVolume(np), x)]
    IN  { [p \in 0 .. (np - 1) |->
              LocalParts(xs, [g \in DOMAIN xs |-> owner[xs[g]]], p, Len(xs))] :
            xs \in { ys \in UNION { [1 .. n -> 1 .. top] : n \in np .. MaxCountPart } :
                       \A p \in 0 .. (np - 1) : \E g \in DOMAIN ys : owner[ys[g]] = p } }

CountInit ==
    /\ NProcs = 2
    /\ Part \in CountParticles(NProcs)
    /\ LinkStartIn(CountVolume(NProcs))

CountSpec == CountInit /\ [][LinkNext]_vars

\* the nonzero group ids the particles of process p carry
GroupIdsOf(p) == { pfof[p][i] : i \in DOMAIN pfof[p] } \ {0}

\* C36: after MPICompileGroups the count gathered for a process is the number
\* of distinct nonzero group ids its particles carry, also on a process that
\* is left without an ungrouped particle.
C36_CountIsDistinctIds ==
    linkstep.stage = "compiled" =>
        \A p \in Tasks : mpi_ngroups[p] = Cardinality(GroupIdsOf(p))

\* a compacted process all of whose particles are grouped, and whose count
\* misses a group
C36_Witness ==
    /\ linkstep.stage = "compiled"
    /\ \E p \in Tasks :
          /\ pfof[p] # <<>>
          /\ \A i \in DOMAIN pfof[p] : pfof[p][i] # 0
          /\ mpi_ngroups[p] = Cardinality(GroupIdsOf(p)) - 1

\* on the processes that keep an ungrouped particle the count is exact
CountExactWithUngrouped ==
    linkstep.stage = "compiled" =>
        \A p \in Tasks :
            (\E i \in DOMAIN pfof[p] : pfof[p][i] = 0)
                => mpi_ngroups[p] = Cardinality(GroupIdsOf(p))

\* ------------------------------------------------------------------------
\* Extra properties of the particles of a chunk: the handles at the receiver
\* ------------------------------------------------------------------------
\* Two processes exchange one chunk of particles, each sending the chunk in
\* Part and receiving into PartDataGet. A particle carries in hydro the
\* handle to its extra properties: 0 for none, or p + 1 for properties in
\* the memory of process p. The values of the properties belong to the
\* property storage and are not followed here. Handles exist only when extra
\* fields are configured.

\* largest number of particles of a chunk
MaxChunkParts == 3
\* largest number of configured extra fields
MaxExtraFields == 1

NoHandle == 0
HandleIn(p) == p + 1

\* the chunks a process can hold for sending
HandleChunks(p, numextrafields) ==
    UNION { [1 .. n -> [hydro : IF numextrafields = 0 THEN {NoHandle}
                                ELSE {NoHandle, HandleIn(p)}]] :
              n \in 0 .. MaxChunkParts }

HandleInit ==
    /\ NProcs = 2
    /\ \E numextrafields \in 0 .. MaxExtraFields :
          /\ Part \in { f \in [Tasks -> UNION { HandleChunks(p, numextrafields) : p \in Tasks }] :
                          \A p \in Tasks : f[p] \in HandleChunks(p, numextrafields) }
          /\ linkstep = [stage |-> "start", numextrafields |-> numextrafields,
                         cleared |-> [p \in Tasks |-> {}], freed |-> {}]
    /\ PartDataGet = [p \in Tasks |-> <<>>]
    /\ ExchangeIdle
    /\ TransportIdle
    /\ DecompIdle
    /\ mpi_period = 0 /\ pfof = <<>> /\ mpi_foftask = <<>> /\ GroupLen = <<>>
    /\ ChainHead = <<>> /\ ChainNext = <<>> /\ mpi_nlocal = <<>> /\ mpi_ngroups = <<>>
    /\ rankorder = <<>> /\ mpi_maxgid = <<>> /\ mpi_gidoffset = <<>>
    /\ NExport = <<>> /\ NImport = <<>> /\ links = <<>>
    /\ lastpass = <<>> /\ FoFGroupDataLocal = <<>> /\ Nlocal = <<>>

\* the partner of process p
recvTaskOf(p) == 1 - p

\* MPI_Sendrecv of the particles as bytes: the receiver holds the handles of
\* the sender, which point into the memory of the sender
SendrecvParticleBytes ==
    /\ linkstep.stage = "start"
    /\ PartDataGet' = [p \in Tasks |-> Part[recvTaskOf(p)]]
    /\ linkstep' = [linkstep EXCEPT !.stage = "copied"]
    /\ UNCHANGED <<sharedVars, transportVars, decompVars>>
    /\ UNCHANGED <<mpi_period, Part, pfof, mpi_foftask, GroupLen, ChainHead, ChainNext,
                   mpi_nlocal, mpi_ngroups, rankorder, mpi_maxgid, mpi_gidoffset,
                   NExport, NImport, links, lastpass, FoFGroupDataLocal, Nlocal>>

\* HasHydroProperties
HasHydroProperties(part) == part.hydro # NoHandle

\* indicessend of process p: the indices, from 0, of the particles of its chunk
\* that carry properties, in ascending order
indicessend(p) ==
    SortedSeq({ i - 1 : i \in { k \in DOMAIN Part[p] : HasHydroProperties(Part[p][k]) } })

\* exchange_indices_and_props: process p receives the indices of its partner
exchange_indices_and_props(p) == indicessend(recvTaskOf(p))

\* the loops after the exchange, left out the one that releases the handles:
\* the properties are set at the received indices, and setting them on a
\* handle into foreign memory frees that memory
ReconstructedUnreleased(p, chunk, indicesrecv) ==
    [chunk |-> [i \in DOMAIN chunk |->
                   IF \E k \in DOMAIN indicesrecv : indicesrecv[k] = i - 1
                   THEN [chunk[i] EXCEPT !.hydro = HandleIn(p)] ELSE chunk[i]],
     cleared |-> {},
     freed |-> { i \in DOMAIN chunk :
                   /\ \E k \in DOMAIN indicesrecv : indicesrecv[k] = i - 1
                   /\ chunk[i].hydro \notin {NoHandle, HandleIn(p)} }]

\* the loops after the exchange: NullHydroProperties on the nlocal particles
\* of the chunk, then SetHydroProperties at the received indices
Reconstructed(p, chunk, indicesrecv) ==
    LET nulled == [i \in DOMAIN chunk |-> [chunk[i] EXCEPT !.hydro = NoHandle]]
    IN  [chunk |-> [i \in DOMAIN chunk |->
                       IF \E k \in DOMAIN indicesrecv : indicesrecv[k] = i - 1
                       THEN [nulled[i] EXCEPT !.hydro = HandleIn(p)] ELSE nulled[i]],
         cleared |-> DOMAIN chunk,
         freed |-> { i \in DOMAIN chunk :
                       /\ \E k \in DOMAIN indicesrecv : indicesrecv[k] = i - 1
                       /\ nulled[i].hydro \notin {NoHandle, HandleIn(p)} }]

\* what the call leaves on process p: it returns at once without extra
\* fields, and after the exchange when no index was received
HydroInfoReceived(p) ==
    IF linkstep.numextrafields = 0 \/ Len(exchange_indices_and_props(p)) = 0
    THEN [chunk |-> PartDataGet[p], cleared |-> {}, freed |-> {}]
    ELSE Reconstructed(p, PartDataGet[p], exchange_indices_and_props(p))

\* MPISendReceiveHydroInfoBetweenThreads on both partners
MPISendReceiveHydroInfoBetweenThreads ==
    /\ linkstep.stage = "copied"
    /\ PartDataGet' = [p \in Tasks |-> HydroInfoReceived(p).chunk]
    /\ linkstep' = [linkstep EXCEPT
                       !.stage = "unpacked",
                       !.cleared = [p \in Tasks |-> HydroInfoReceived(p).cleared],
                       !.freed = { p \in Tasks : HydroInfoReceived(p).freed # {} }]
    /\ UNCHANGED <<sharedVars, transportVars, decompVars>>
    /\ UNCHANGED <<mpi_period, Part, pfof, mpi_foftask, GroupLen, ChainHead, ChainNext,
                   mpi_nlocal, mpi_ngroups, rankorder, mpi_maxgid, mpi_gidoffset,
                   NExport, NImport, links, lastpass, FoFGroupDataLocal, Nlocal>>

HandleNext == SendrecvParticleBytes \/ MPISendReceiveHydroInfoBetweenThreads

HandleSpec == HandleInit /\ [][HandleNext]_vars

\* the received chunk of process p holds a handle into the memory of another
\* process
HoldsStaleHandle(p) ==
    \E i \in DOMAIN PartDataGet[p] : PartDataGet[p][i].hydro \notin {NoHandle, HandleIn(p)}

CellCoordsInside(o, xlim, x, y, z) ==
    /\ CellCoord(o, xlim, 0, x) \in 0 .. (o.numcellsperdim - 1)
    /\ CellCoord(o, xlim, 1, y) \in 0 .. (o.numcellsperdim - 1)
    /\ CellCoord(o, xlim, 2, z) \in 0 .. (o.numcellsperdim - 1)

\* C38: under the mesh decomposition with more than one process, the owner
\* query raises the count of a cell only at an index inside [0, numcells) and
\* returns the owner of the cell that contains the position; for a position
\* with a cell coordinate outside [0, numcellsperdim) on some axis no count
\* changes and no owner is returned.
C38_OnlyContainingCellCounted ==
    [][(located.step = "decomposed" /\ located'.step = "located"
          /\ opt.impiusemesh /\ NProcs # 1) =>
        LET x == located'.pos[1]
            y == located'.pos[2]
            z == located'.pos[3]
            index == CellIndex(opt, mpi_xlim, x, y, z)
        IN  /\ index \in 0 .. (opt.numcells - 1)
            /\ IF CellCoordsInside(opt, mpi_xlim, x, y, z)
               THEN /\ located'.owner = opt.cellnodeids[index]
                    /\ opt' = [opt EXCEPT !.cellnodenumparts[index] = @ + 1]
               ELSE /\ located'.owner = -1
                    /\ opt' = opt]_vars

\* an owner query for a point above the volume in z only: the count of the
\* cell behind the one the point lies beside is raised and its owner is
\* returned
C38_Witness ==
    /\ located.step = "located"
    /\ opt.impiusemesh
    /\ NProcs # 1
    /\ located.pos[3] > mpi_xlim[2][1]
    /\ located.pos[1] < mpi_xlim[0][1] /\ located.pos[2] < mpi_xlim[1][1]
    /\ located.owner \in Tasks
    /\ opt.cellnodenumparts[CellIndex(opt, mpi_xlim, located.pos[1], located.pos[2],
                                      located.pos[3])] > 0

\* for a point with every cell coordinate inside the mesh the query counts
\* the cell that contains the point and returns its owner
InsideQueryCounted ==
    [][(located.step = "decomposed" /\ located'.step = "located"
          /\ opt.impiusemesh /\ NProcs # 1
          /\ CellCoordsInside(opt, mpi_xlim, located'.pos[1], located'.pos[2],
                              located'.pos[3])) =>
        LET index == CellIndex(opt, mpi_xlim, located'.pos[1], located'.pos[2],
                               located'.pos[3])
        IN  /\ index \in 0 .. (opt.numcells - 1)
            /\ located'.owner = opt.cellnodeids[index]
            /\ opt' = [opt EXCEPT !.cellnodenumparts[index] = @ + 1]]_vars

\* ------------------------------------------------------------------------
\* The local count after a rebalance: MPINumInDomain under the mesh
\* ------------------------------------------------------------------------
\* The input holds dark matter and gas particles; Part.dark[c] and
\* Part.gas[c] are the numbers of them in cell c, and the particles of cell c
\* are read by process c % NProcs. The search is over all particles or over
\* the dark matter; the baryon search goes with the dark matter search.

\* largest number of gas particles of the input
MaxGasParts == 1

\* the searches of these runs: partsearchtype and iBaryonSearch
SearchKinds ==
    { [partsearchtype |-> "PSTALL", iBaryonSearch |-> 0],
      [partsearchtype |-> "PSTDARK", iBaryonSearch |-> 0],
      [partsearchtype |-> "PSTDARK", iBaryonSearch |-> 1] }

\* the inputs of these runs: the gas particles lie in one cell
InputCounts ==
    { [dark |-> d, gas |-> [c \in 0 .. 7 |-> IF c = g THEN n ELSE 0]] :
        d \in [0 .. 7 -> 0 .. MaxCellParts], g \in 0 .. 7, n \in 0 .. MaxGasParts }

\* state before the counting pass: the mesh is decomposed, nothing is counted
RecountInit ==
    /\ NProcs \in BalanceProcs
    /\ \E kind \in SearchKinds : \E lim \in ImbalanceLimits :
          opt = [impiusemesh |-> TRUE, numcellsperdim |-> 2, minnumcellperdim |-> 1,
                 numcells |-> BalanceMesh[NProcs].numcells,
                 cellnodeids |-> BalanceMesh[NProcs].cellnodeids,
                 cellnodeorder |-> BalanceMesh[NProcs].cellnodeorder,
                 cellnodenumparts |-> [q \in Tasks |-> [c \in 0 .. 7 |-> 0]],
                 iBaryonSearch |-> kind.iBaryonSearch,
                 mpimeshimbalancelimit |-> lim,
                 partsearchtype |-> kind.partsearchtype]
    /\ Part \in InputCounts
    /\ mpi_xlim = [axis \in 0 .. 2 |-> [side \in 0 .. 1 |-> IF side = 0 THEN 0 ELSE 4]]
    /\ mpi_nxsplit = <<>>
    /\ mpi_domain = <<>>
    /\ located = [step |-> "start", returned |-> FALSE]
    /\ Nlocal = [p \in Tasks |-> 0]
    /\ ExchangeIdle
    /\ TransportIdle
    /\ mpi_period = 0 /\ pfof = <<>> /\ mpi_foftask = <<>> /\ GroupLen = <<>>
    /\ ChainHead = <<>> /\ ChainNext = <<>> /\ mpi_nlocal = <<>> /\ mpi_ngroups = <<>>
    /\ rankorder = <<>> /\ mpi_maxgid = <<>> /\ mpi_gidoffset = <<>>
    /\ PartDataGet = <<>> /\ NExport = <<>> /\ NImport = <<>> /\ links = <<>>
    /\ linkstep = <<>> /\ lastpass = <<>> /\ FoFGroupDataLocal = <<>>

\* the particles of cell c that raise Nbuf: all of them, or the dark matter
SearchedIn(o, input, c) ==
    IF o.partsearchtype = "PSTALL" THEN input.dark[c] + input.gas[c] ELSE input.dark[c]


\* Nbuf of the reading process q after its loop over the particles: the
\* searched particles it has read, by the owner of their cell
Nbuf(o, input, np, q) ==
    [j \in 0 .. (np - 1) |->
        SumFn([c \in 0 .. 7 |->
                  IF c % np = q /\ o.cellnodeids[c] = j THEN SearchedIn(o, input, c) ELSE 0],
              8)]

\* MPINumInDomainGadget on every process: every particle read goes through
\* MPIGetParticlesProcessor, which raises the count of its cell whatever its
\* type; Nbuf is reduced into Nlocal
NumInDomainCounted(step) ==
    /\ opt' = [opt EXCEPT !.cellnodenumparts =
                  [q \in Tasks |->
                      [c \in 0 .. 7 |->
                          IF c % NProcs = q
                          THEN opt.cellnodenumparts[q][c] + Part.dark[c] + Part.gas[c]
                          ELSE opt.cellnodenumparts[q][c]]]]
    /\ Nlocal' = [p \in Tasks |->
                     SumFn([q \in Tasks |-> Nbuf(opt, Part, NProcs, q)[p]], NProcs)]
    /\ located' = [step |-> step, returned |-> FALSE]
    /\ UNCHANGED <<sharedVars, transportVars, mpi_xlim, mpi_nxsplit, mpi_domain>>
    /\ UNCHANGED <<mpi_period, Part, pfof, mpi_foftask, GroupLen, ChainHead, ChainNext,
                   mpi_nlocal, mpi_ngroups, rankorder, mpi_maxgid, mpi_gidoffset,
                   PartDataGet, NExport, NImport, links, linkstep, lastpass,
                   FoFGroupDataLocal>>

\* the counting pass of MPINumInDomain
MPINumInDomainGadget ==
    /\ located.step = "start"
    /\ NumInDomainCounted("counted")

\* the second pass of MPINumInDomain, made when the rebalance returned true
MPINumInDomainGadgetAgain ==
    /\ located.step = "repartitioned"
    /\ located.returned
    /\ NumInDomainCounted("recounted")

\* MPINumInDomain under the mesh
RecountNext ==
    \/ MPINumInDomainGadget
    \/ MPIRepartitionDomainDecompositionWithMesh
    \/ MPINumInDomainGadgetAgain

RecountSpec == RecountInit /\ [][RecountNext]_vars

\* MPINumInDomain has returned after a re-cut of the cells
NumInDomainDone ==
    \/ located.step = "repartitioned" /\ ~located.returned
    \/ located.step = "recounted"

\* the searched particles in the cells process p owns
SearchedOwned(p) ==
    SumFn([c \in 0 .. 7 |->
              IF opt.cellnodeids[c] = p THEN SearchedIn(opt, Part, c) ELSE 0], 8)

\* C39: after a rebalance that re-cut the cells, with or without the second
\* counting pass, Nlocal of every process is the number of particles of the
\* searched type in the cells the process owns under the new assignment.
C39_LocalCountOfOwnedCells ==
    NumInDomainDone => \A p \in Tasks : Nlocal[p] = SearchedOwned(p)

\* the re-cut was not followed by a second pass in a dark matter search of
\* an input with gas, and a process counts a gas particle as its own
C39_Witness ==
    /\ located.step = "repartitioned"
    /\ ~located.returned
    /\ opt.partsearchtype = "PSTDARK"
    /\ \E p \in Tasks : Nlocal[p] > SearchedOwned(p)

\* the count is that of the owned cells after the second pass, and without
\* it when the search is over all particles or the input holds no gas
LocalCountWhenRecountedOrUntyped ==
    (NumInDomainDone
       /\ (\/ located.step = "recounted"
           \/ opt.partsearchtype = "PSTALL"
           \/ \A c \in 0 .. 7 : Part.gas[c] = 0))
    => \A p \in Tasks : Nlocal[p] = SearchedOwned(p)

\* ------------------------------------------------------------------------
\* Reading the input: the exchange between the reading tasks
\* ------------------------------------------------------------------------
\* opt.nsnapread of the NProcs processes read the input and then exchange
\* the particles they have read for each other in nsnapread steps, each with
\* blocking send-receive calls to the partner of the step. comm[p] holds the
\* step ibuf of process p, its flag icycle, and met, the partners it has
\* exchanged particles with.

\* largest number of reading tasks
MaxReaders == 3
\* NProcs over the number of reading tasks in these runs
ReaderSpacings == {1, 2}

\* MPIDistributeReadTasks: the reading tasks are spread over the processes
MPIDistributeReadTasks(np, requested) ==
    LET nsnapread == Min(requested, np)
        spacing == Max(1, np \div nsnapread)
    IN  [nsnapread |-> nsnapread,
         readtaskID |-> [i \in 0 .. (nsnapread - 1) |-> i * spacing],
         ireadtask |-> [p \in 0 .. (np - 1) |->
                           IF p % spacing = 0 /\ p \div spacing < nsnapread
                           THEN p \div spacing ELSE -1]]

\* the send counts of these runs: every pair of reading tasks has traffic or
\* not, and the traffic of all pairs goes one way, the other way, or both
ReadMatrices(np, readers) ==
    { [k \in 0 .. (np * np - 1) |->
          LET from == k \div np
              to == k % np
          IN  IF from # to /\ {from, to} \in pairs
                 /\ (\/ way = "both"
                     \/ way = "up" /\ from < to
                     \/ way = "down" /\ from > to)
              THEN 1 ELSE 0] :
        pairs \in SUBSET { pr \in SUBSET readers : Cardinality(pr) = 2 },
        way \in {"both", "up", "down"} }

ReadInit ==
    /\ \E n \in 1 .. MaxReaders : \E s \in ReaderSpacings : \E b \in 0 .. 1 :
          /\ NProcs = n * s
          /\ opt = [nsnapread |-> MPIDistributeReadTasks(n * s, n).nsnapread,
                    readtaskID |-> MPIDistributeReadTasks(n * s, n).readtaskID,
                    ireadtask |-> MPIDistributeReadTasks(n * s, n).ireadtask,
                    iBaryonSearch |-> b]
    /\ mpi_nsend \in ReadMatrices(NProcs, { opt.readtaskID[i] : i \in DOMAIN opt.readtaskID })
    /\ comm = [p \in Tasks |-> [ibuf |-> 0, icycle |-> 0, met |-> <<>>]]
    /\ commpair = <<>> /\ maxchunksize = 0 /\ mpierr = FALSE
    /\ FoFDataIn = <<>> /\ FoFDataGet = <<>>
    /\ mpi_xlim = <<>> /\ mpi_nxsplit = <<>> /\ mpi_domain = <<>> /\ located = <<>>
    /\ LinkIdle

Abs(a) == IF a < 0 THEN 0 - a ELSE a

\* the position among the reading tasks of the partner of process p in its
\* step, were the flag icycle left out
ReadPartnerNoCycle(p) ==
    Abs(opt.nsnapread - 1 - comm[p].ibuf - opt.ireadtask[p])

\* the position among the reading tasks of the partner of process p in its
\* step
ReadPartner(p) ==
    LET recvTask == Abs(opt.nsnapread - 1 - comm[p].ibuf - opt.ireadtask[p])
    IN  IF comm[p].icycle = 1 THEN opt.nsnapread - recvTask ELSE recvTask

\* recvTask of process p in its step; a position that is not one of a
\* reading task reads behind readtaskID and gives any value
recvTaskOfStep(p) ==
    IF ReadPartner(p) \in DOMAIN opt.readtaskID
    THEN {opt.readtaskID[ReadPartner(p)]}
    ELSE 0 .. (NProcs - 1)

\* process p is in the loop over the steps
Reading(p) == opt.ireadtask[p] >= 0 /\ comm[p].ibuf < opt.nsnapread

\* the test for the exchange of particles with the partner
HasReadTraffic(p, q) ==
    p # q /\ (mpi_nsend[p * NProcs + q] > 0 \/ mpi_nsend[q * NProcs + p] > 0)

\* the step of process p makes send-receive calls to the partner q: for the
\* particles when there is traffic, and at least one for the baryons of a
\* separate baryon search, also to itself
CallsPartner(p, q) == HasReadTraffic(p, q) \/ opt.iBaryonSearch > 0

\* number of send-receive calls for the particles of the pair, as process p
\* computes it for a chunk size
ReadChunks(p, q, chunk) ==
    Max(CeilDiv(mpi_nsend[p * NProcs + q], chunk), CeilDiv(mpi_nsend[q * NProcs + p], chunk))

\* process p after its step with partner q
AfterReadStep(p, q) ==
    [ibuf |-> comm[p].ibuf + 1,
     icycle |-> IF comm[p].ibuf > 0 /\ q = 0 THEN 1 ELSE comm[p].icycle,
     met |-> IF HasReadTraffic(p, q) THEN Append(comm[p].met, q) ELSE comm[p].met]

ReadUnchanged ==
    /\ UNCHANGED <<NProcs, mpi_nsend, FoFDataIn, FoFDataGet, commpair, maxchunksize, mpierr>>
    /\ UNCHANGED <<decompVars, linkVars>>

\* a step of process p without a call to another process
ReadStepAlone(p) ==
    /\ Reading(p)
    /\ \E q \in recvTaskOfStep(p) :
          /\ q = p \/ ~CallsPartner(p, q)
          /\ comm' = [comm EXCEPT ![p] = AfterReadStep(p, q)]
    /\ ReadUnchanged

\* the steps of two processes that call each other: the blocking calls of
\* the two are matched and both go on
ReadStepPair(p, q) ==
    /\ p # q
    /\ Reading(p) /\ Reading(q)
    /\ q \in recvTaskOfStep(p) /\ p \in recvTaskOfStep(q)
    /\ CallsPartner(p, q)
    /\ \A chunk \in 1 .. 2 : ReadChunks(p, q, chunk) = ReadChunks(q, p, chunk)
    /\ comm' = [comm EXCEPT ![p] = AfterReadStep(p, q), ![q] = AfterReadStep(q, p)]
    /\ ReadUnchanged

ReadNext ==
    \/ \E p \in Tasks : ReadStepAlone(p)
    \/ \E p, q \in Tasks : ReadStepPair(p, q)

ReadSpec == ReadInit /\ [][ReadNext]_vars

\* the blocking calls are matched whenever both partners have made them
ReadLiveSpec == ReadSpec /\ WF_vars(ReadNext)

\* every process has left the loop over the steps
ReadersDone == \A p \in Tasks : ~Reading(p)

\* the partners process p has traffic with
TrafficPartners(p) == { q \in Tasks : HasReadTraffic(p, q) }

\* some step can be made
ReadCanStep ==
    \/ \E p \in Tasks : Reading(p) /\ \E q \in recvTaskOfStep(p) : q = p \/ ~CallsPartner(p, q)
    \/ \E p, q \in Tasks :
          /\ p # q /\ Reading(p) /\ Reading(q)
          /\ q \in recvTaskOfStep(p) /\ p \in recvTaskOfStep(q)
          /\ CallsPartner(p, q)

\* no process has exchanged particles twice with a partner, or with a
\* process it has no traffic with; the partner of a step is a reading task;
\* while a process is in the loop some step can be made; and at the end every
\* process has exchanged with each partner it has traffic with
ReadScheduleSound ==
    /\ \A p \in Tasks :
          /\ \A i, j \in DOMAIN comm[p].met : i # j => comm[p].met[i] # comm[p].met[j]
          /\ { comm[p].met[i] : i \in DOMAIN comm[p].met } \subseteq TrafficPartners(p)
          /\ Reading(p) => ReadPartner(p) \in DOMAIN opt.readtaskID
          /\ ~Reading(p) =>
                { comm[p].met[i] : i \in DOMAIN comm[p].met } = TrafficPartners(p)
    /\ ReadersDone \/ ReadCanStep

\* C40: in the exchange between the reading tasks, for every number of
\* reading tasks, every pair of distinct reading tasks with traffic exchanges
\* exactly once, and the blocking exchanges do not deadlock: every reading
\* task completes all of its steps.
C40_EveryPairOnceAndDone == []ReadScheduleSound /\ <>ReadersDone

\* the largest number of reading tasks, spread over twice as many processes,
\* all with traffic to each other, have completed their steps
C40_Witness ==
    /\ ReadersDone
    /\ opt.nsnapread = MaxReaders
    /\ NProcs = 2 * MaxReaders
    /\ \A p \in Tasks :
          opt.ireadtask[p] >= 0 => Len(comm[p].met) = MaxReaders - 1
    /\ \E p \in Tasks : comm[p].icycle = 1

====
